---- MODULE Spec2Model ----
(***************************************************************************)
(* Model of src/file.py: the file organizer's category registry, the       *)
(* worker thread (scan, classify, relocate, summarise) and the part of the *)
(* GUI that starts, stops and edits what the worker reads.                 *)
(*                                                                         *)
(* Strings that the code takes apart (file names, extensions, folder       *)
(* names, dialog text) are sequences of one-character strings, so that     *)
(* lower(), strip(), split(), Path.stem, Path.suffix and the               *)
(* "{stem}_{n}{suffix}" formatting are computed, not assumed.  A path is a *)
(* sequence of such names.  The characters are the code points 1 to 255.   *)
(* The filesystem is a function from the existing paths to [kind, id]; the *)
(* kinds are "file", "dir" and "locked", a directory the process may       *)
(* neither list nor write.                                                 *)
(***************************************************************************)
EXTENDS Integers, Sequences, FiniteSets, TLC

VARIABLES
    categories,          \* FileOrganizerGUI.categories, shared with the worker
    fs,                  \* the filesystem: path -> [kind, id]
    source_path,         \* FileOrganizerGUI.source_path text, stripped ("" = empty)
    dest_path,           \* FileOrganizerGUI.dest_path text, stripped ("" = empty)
    dry_run_btn,         \* enabled state of the three buttons
    organize_btn,
    stop_btn,
    worker,              \* FileOrganizerGUI.worker is set (TRUE) or None (FALSE)
    closed,              \* the main window was closed (closeEvent accepted)
    asking,              \* closeEvent's question "Operation in Progress" is open
    waiting,             \* closeEvent is in self.worker.wait(2000)
    source_dir,          \* FileOrganizerWorker.source_dir
    dest_dir,            \* FileOrganizerWorker.dest_dir
    dry_run,             \* FileOrganizerWorker.dry_run
    should_stop,         \* FileOrganizerWorker.should_stop
    pc,                  \* position of the worker thread in organize_files
    scan_left,           \* entries rglob has not yielded yet
    files,               \* organize_files: files (list of FileInfo)
    i,                   \* organize_files: index of the processing loop
    category,            \* organize_files: category (index in categories, 0 = None)
    organized_count,     \* organize_files: organized_count
    uncategorized_files, \* organize_files: uncategorized_files
    j,                   \* handle_uncategorized_files: index of its loop
    events,              \* signals emitted by the worker in this run, in order
    pending,             \* finished/error signals queued for the GUI thread
    runs,                \* number of runs started
    toggles,             \* number of clicks on a category's checkbox
    selects,             \* number of directories chosen
    faults,              \* number of filesystem failures injected
    hist                 \* observations of the current and previous run

vars == <<categories, fs, source_path, dest_path, dry_run_btn, organize_btn, stop_btn,
          worker, closed, asking, waiting, selects, source_dir, dest_dir, dry_run, should_stop, pc,
          scan_left, files, i, category, organized_count, uncategorized_files, j,
          events, pending, runs, toggles, faults, hist>>

-----------------------------------------------------------------------------
(* Bounds of the model *)

MaxFiles == 2        \* files initially under the source root
MaxRuns == 2         \* runs started in one behaviour
MaxToggles == 1      \* clicks on a category's checkbox in one behaviour
MaxCustom == 1       \* custom categories added in one behaviour
MaxSelects == 1      \* directories chosen in one behaviour, the first source aside
MaxFaults == 1       \* injected filesystem failures in one behaviour
MaxVariations == 2   \* checkbox clicks, added categories, chosen directories and
                     \* injected failures in one behaviour, taken together

-----------------------------------------------------------------------------
(* Strings *)

\* The characters str.lower() changes, A to Z and the capital letters of
\* Latin-1 (U+00C0 to U+00DE without the multiplication sign), and what it
\* makes of each
UpperChars == <<"A", "B", "C", "D", "E", "F", "G", "H", "I", "J", "K", "L", "M",
                "N", "O", "P", "Q", "R", "S", "T", "U", "V", "W", "X", "Y", "Z",
                "À", "Á", "Â", "Ã", "Ä", "Å", "Æ", "Ç", "È", "É", "Ê", "Ë", "Ì",
                "Í", "Î", "Ï", "Ð", "Ñ", "Ò", "Ó", "Ô", "Õ", "Ö", "Ø", "Ù", "Ú",
                "Û", "Ü", "Ý", "Þ">>
LowerChars == <<"a", "b", "c", "d", "e", "f", "g", "h", "i", "j", "k", "l", "m",
                "n", "o", "p", "q", "r", "s", "t", "u", "v", "w", "x", "y", "z",
                "à", "á", "â", "ã", "ä", "å", "æ", "ç", "è", "é", "ê", "ë", "ì",
                "í", "î", "ï", "ð", "ñ", "ò", "ó", "ô", "õ", "ö", "ø", "ù", "ú",
                "û", "ü", "ý", "þ">>

\* Upper-case letter -> its place in UpperChars
UpperIndex ==
    [c \in {UpperChars[k] : k \in 1..Len(UpperChars)} |->
        CHOOSE k \in 1..Len(UpperChars) : UpperChars[k] = c]

\* str.lower() on one character
LowerChar(c) == IF c \in DOMAIN UpperIndex THEN LowerChars[UpperIndex[c]] ELSE c

\* str.lower()
Lower(s) == [k \in 1..Len(s) |-> LowerChar(s[k])]

\* str.rfind("."): 0-based index of the last dot, -1 when there is none
RFindDot(s) ==
    IF \E k \in 1..Len(s) : s[k] = "."
    THEN (CHOOSE k \in 1..Len(s) : s[k] = "." /\ \A m \in (k+1)..Len(s) : s[m] # ".") - 1
    ELSE -1

\* pathlib PurePath.suffix of a file name
Suffix(name) ==
    LET d == RFindDot(name)
    IN IF 0 < d /\ d < Len(name) - 1 THEN SubSeq(name, d + 1, Len(name)) ELSE <<>>

\* pathlib PurePath.stem of a file name
Stem(name) ==
    LET d == RFindDot(name)
    IN IF 0 < d /\ d < Len(name) - 1 THEN SubSeq(name, 1, d) ELSE name

DigitChars == <<"0", "1", "2", "3", "4", "5", "6", "7", "8", "9">>

\* str(n) for n >= 0
RECURSIVE IntToStr(_)
IntToStr(n) ==
    IF n < 10 THEN <<DigitChars[n + 1]>>
    ELSE IntToStr(n \div 10) \o <<DigitChars[(n % 10) + 1]>>

\* f"{base_name}_{counter}{extension}"
NumberedName(base_name, counter, extension) ==
    base_name \o <<"_">> \o IntToStr(counter) \o extension

-----------------------------------------------------------------------------
(* Paths and the filesystem *)

IsPrefix(p, q) == Len(p) <= Len(q) /\ SubSeq(q, 1, Len(p)) = p

\* p in q.parents
InParents(p, q) == Len(p) < Len(q) /\ IsPrefix(p, q)

\* Path.name
BaseName(p) == p[Len(p)]

\* A directory above p is locked: the process may not search it, and every
\* call on p (stat, mkdir, rename) raises PermissionError
Denied(f, p) ==
    \E k \in 1..(Len(p) - 1) :
        SubSeq(p, 1, k) \in DOMAIN f /\ f[SubSeq(p, 1, k)].kind = "locked"

\* Path.exists() raises: EACCES is not among the errors pathlib ignores
ExistsRaises(f, p) == Denied(f, p)

\* Path.exists() when it returns
Exists(f, p) == p \in DOMAIN f

\* Path.is_file() raises
IsFileRaises(f, p) == Denied(f, p)

\* Path.is_file() when it returns
IsFile(f, p) == p \in DOMAIN f /\ f[p].kind = "file"

\* Path.is_dir() of a directory that can be listed
IsListable(f, p) == p \in DOMAIN f /\ f[p].kind = "dir"

Prefixes(p) == {SubSeq(p, 1, k) : k \in 1..Len(p)}

\* Path.mkdir(parents=True, exist_ok=True) raises when the path or one of its
\* ancestors is a file, or when a directory above the path is locked; a path
\* that is a directory already, locked or not, is accepted (exist_ok)
MkdirRaises(f, p) ==
    \/ Denied(f, p)
    \/ \E q \in Prefixes(p) : q \in DOMAIN f /\ f[q].kind = "file"

\* Path.mkdir(parents=True, exist_ok=True) when it succeeds
Mkdir(f, p) ==
    [q \in DOMAIN f \cup Prefixes(p) |->
        IF q \in DOMAIN f THEN f[q] ELSE [kind |-> "dir", id |-> 0]]

\* shutil.move(src, dst) raises when the source is gone, or when the folder
\* of the source or of the destination is locked or below a locked directory
MoveRaises(f, src, dst) == src \notin DOMAIN f \/ Denied(f, src) \/ Denied(f, dst)

\* shutil.move(src, dst) when it succeeds: dst names what src named
Move(f, src, dst) ==
    [q \in (DOMAIN f \ {src}) \cup {dst} |-> IF q = dst THEN f[src] ELSE f[q]]

\* shutil.move(src, dst) when os.rename fails, the file is copied to dst and
\* os.unlink(src) raises (the folder of the source is not writable): the file
\* is at both paths
Copied(f, src, dst) ==
    [q \in DOMAIN f \cup {dst} |-> IF q = dst THEN f[src] ELSE f[q]]

-----------------------------------------------------------------------------
(* Category registry *)

\* FileCategory.__init__
FileCategory(name, extensions, folder_name) ==
    [name |-> name,
     extensions |-> [k \in 1..Len(extensions) |-> Lower(extensions[k])],
     folder_name |-> folder_name,
     file_count |-> 0,
     enabled |-> TRUE]

\* FileCategory.matches_extension
matches_extension(cat, extension) ==
    LET lowered == Lower(extension)
    IN \E k \in 1..Len(cat.extensions) : cat.extensions[k] = lowered

\* FileCategory.increment_count, on the category at index c
increment_count(cats, c) ==
    [cats EXCEPT ![c].file_count = cats[c].file_count + 1]

\* The loop "for category in self.categories: if category.enabled:
\* category.reset_count()" of organize_files
reset_counts(cats) ==
    [k \in 1..Len(cats) |->
        IF cats[k].enabled THEN [cats[k] EXCEPT !.file_count = 0] ELSE cats[k]]

\* FileOrganizerWorker.get_category_for_extension: the loop from index k on;
\* the result is an index of the registry, 0 for None
RECURSIVE category_from(_, _, _)
category_from(cats, extension, k) ==
    IF k > Len(cats) THEN 0
    ELSE IF cats[k].enabled /\ matches_extension(cats[k], extension) THEN k
    ELSE category_from(cats, extension, k + 1)

\* Mutant: the enabled flag is not read
RECURSIVE category_from_any(_, _, _)
category_from_any(cats, extension, k) ==
    IF k > Len(cats) THEN 0
    ELSE IF matches_extension(cats[k], extension) THEN k
    ELSE category_from_any(cats, extension, k + 1)

get_category_ignoring_enabled(cats, extension) == category_from_any(cats, extension, 1)

get_category_for_extension(cats, extension) == category_from(cats, extension, 1)

\* The dict comprehension {cat.name: cat.file_count for cat in self.categories
\* if cat.file_count > 0}: a later category of the same name replaces an earlier
summary_categories(cats) ==
    LET shown == {k \in 1..Len(cats) : cats[k].file_count > 0}
        last(n) == CHOOSE k \in shown :
                      /\ cats[k].name = n
                      /\ \A m \in shown : cats[m].name = n => m <= k
    IN [n \in {cats[k].name : k \in shown} |-> cats[last(n)].file_count]

\* Names of the model's files and folders
NDocuments == <<"D", "o", "c", "u", "m", "e", "n", "t", "s">>
NImages == <<"I", "m", "a", "g", "e", "s">>
NVideos == <<"V", "i", "d", "e", "o", "s">>
NAudio == <<"A", "u", "d", "i", "o">>
NArchives == <<"A", "r", "c", "h", "i", "v", "e", "s">>
NCode == <<"C", "o", "d", "e">>
NSpreadsheets == <<"S", "p", "r", "e", "a", "d", "s", "h", "e", "e", "t", "s">>
NPresentations == <<"P", "r", "e", "s", "e", "n", "t", "a", "t", "i", "o", "n", "s">>
NExecutables == <<"E", "x", "e", "c", "u", "t", "a", "b", "l", "e", "s">>
NTexts == <<"T", "e", "x", "t", "s">>
NUncategorized == <<"U", "n", "c", "a", "t", "e", "g", "o", "r", "i", "z", "e", "d">>
NOrganized == <<"O", "r", "g", "a", "n", "i", "z", "e", "d">>
NSrc == <<"s", "r", "c">>
NDst == <<"d", "s", "t">>
NSub == <<"s", "u", "b">>
NReport == <<"r", ".", "P", "D", "F">>

\* FileOrganizerGUI.init_default_categories
init_default_categories ==
    << FileCategory(NDocuments,
                    << <<".", "p", "d", "f">>, <<".", "d", "o", "c">>,
                       <<".", "d", "o", "c", "x">>, <<".", "t", "x", "t">>,
                       <<".", "r", "t", "f">>, <<".", "o", "d", "t">> >>,
                    NDocuments),
       FileCategory(NImages,
                    << <<".", "j", "p", "g">>, <<".", "j", "p", "e", "g">>,
                       <<".", "p", "n", "g">>, <<".", "g", "i", "f">>,
                       <<".", "b", "m", "p">>, <<".", "s", "v", "g">>,
                       <<".", "t", "i", "f", "f">> >>,
                    NImages),
       FileCategory(NVideos,
                    << <<".", "m", "p", "4">>, <<".", "a", "v", "i">>,
                       <<".", "m", "k", "v">>, <<".", "m", "o", "v">>,
                       <<".", "w", "m", "v">>, <<".", "f", "l", "v">>,
                       <<".", "w", "e", "b", "m">> >>,
                    NVideos),
       FileCategory(NAudio,
                    << <<".", "m", "p", "3">>, <<".", "w", "a", "v">>,
                       <<".", "f", "l", "a", "c">>, <<".", "a", "a", "c">>,
                       <<".", "o", "g", "g">>, <<".", "w", "m", "a">> >>,
                    NAudio),
       FileCategory(NArchives,
                    << <<".", "z", "i", "p">>, <<".", "r", "a", "r">>,
                       <<".", "7", "z">>, <<".", "t", "a", "r">>,
                       <<".", "g", "z">>, <<".", "b", "z", "2">> >>,
                    NArchives),
       FileCategory(NCode,
                    << <<".", "p", "y">>, <<".", "j", "s">>,
                       <<".", "h", "t", "m", "l">>, <<".", "c", "s", "s">>,
                       <<".", "c", "p", "p">>, <<".", "j", "a", "v", "a">>,
                       <<".", "p", "h", "p">> >>,
                    NCode),
       FileCategory(NSpreadsheets,
                    << <<".", "x", "l", "s", "x">>, <<".", "x", "l", "s">>,
                       <<".", "c", "s", "v">>, <<".", "o", "d", "s">> >>,
                    NSpreadsheets),
       FileCategory(NPresentations,
                    << <<".", "p", "p", "t">>, <<".", "p", "p", "t", "x">>,
                       <<".", "o", "d", "p">> >>,
                    NPresentations),
       FileCategory(NExecutables,
                    << <<".", "e", "x", "e">>, <<".", "m", "s", "i">>,
                       <<".", "d", "e", "b">>, <<".", "d", "m", "g">>,
                       <<".", "a", "p", "p">> >>,
                    NExecutables) >>

-----------------------------------------------------------------------------
(* FileInfo and destination naming *)

\* FileInfo.__init__ (size and modified_time are never read by the worker)
FileInfo(file_path) ==
    [path |-> file_path,
     name |-> BaseName(file_path),
     extension |-> Lower(Suffix(BaseName(file_path)))]

\* The loop "while destination.exists(): ..." of move_file and of
\* handle_uncategorized_files, from the candidate destination and counter
RECURSIVE free_destination(_, _, _, _, _, _)
free_destination(f, folder, base_name, extension, destination, counter) ==
    IF Exists(f, destination)
    THEN free_destination(f, folder, base_name, extension,
                          Append(folder, NumberedName(base_name, counter, extension)),
                          counter + 1)
    ELSE destination

\* Mutant: "if destination.exists()" in place of "while destination.exists()"
choose_destination_once(f, folder, file_info) ==
    IF Exists(f, Append(folder, file_info.name))
    THEN Append(folder, NumberedName(Stem(BaseName(file_info.path)), 1,
                                     Suffix(BaseName(file_info.path))))
    ELSE Append(folder, file_info.name)

\* The destination move_file and handle_uncategorized_files choose for a file
\* moved into folder
choose_destination(f, folder, file_info) ==
    free_destination(f, folder, Stem(BaseName(file_info.path)),
                     Suffix(BaseName(file_info.path)),
                     Append(folder, file_info.name), 1)

-----------------------------------------------------------------------------
(* Dialog text of add_custom_category *)

\* Characters that have no escape in a string: line tabulation (U+000B),
\* the four information separators (U+001C to U+001F), next line (U+0085)
\* and the no-break space (U+00A0)
VT == ""
FS == ""
GS == ""
RS == ""
US == ""
NEL == ""
NBSP == " "

\* The whitespace str.strip() removes, str.isspace() of one character: space,
\* tab, line feed, carriage return, form feed and the seven above
Whitespace == {" ", "\t", "\n", "\r", "\f", VT, FS, GS, RS, US, NEL, NBSP}

IsSpace(c) == c \in Whitespace

\* str.strip()
RECURSIVE LStrip(_)
LStrip(s) == IF s # <<>> /\ IsSpace(Head(s)) THEN LStrip(Tail(s)) ELSE s

RECURSIVE RStrip(_)
RStrip(s) ==
    IF s # <<>> /\ IsSpace(s[Len(s)]) THEN RStrip(SubSeq(s, 1, Len(s) - 1)) ELSE s

Strip(s) == LStrip(RStrip(s))

\* str.split(','): the tokens of s, cur being the token read so far
RECURSIVE SplitFrom(_, _)
SplitFrom(s, cur) ==
    IF s = <<>> THEN <<cur>>
    ELSE IF Head(s) = "," THEN <<cur>> \o SplitFrom(Tail(s), <<>>)
    ELSE SplitFrom(Tail(s), Append(cur, Head(s)))

SplitComma(s) == SplitFrom(s, <<>>)

RECURSIVE StripNonEmpty(_)
StripNonEmpty(tokens) ==
    IF tokens = <<>> THEN <<>>
    ELSE IF Strip(Head(tokens)) # <<>>
         THEN <<Strip(Head(tokens))>> \o StripNonEmpty(Tail(tokens))
         ELSE StripNonEmpty(Tail(tokens))

\* [ext.strip() for ext in text.split(',') if ext.strip()]
parse_extensions(text) == StripNonEmpty(SplitComma(text))

\* Texts typed into the dialog's three fields; the folder typed is the one a
\* default category uses (no field is compared with the registry)
NameTexts == { <<" ", NBSP>>, <<"\t", VT>> \o NTexts }
ExtensionTexts == { <<NEL, ",", "\t">>,
                    <<" ", ".", "T", "X", "T", US, ",", VT, ",", NBSP, ".", "P", "D", "F">> }
FolderTexts == { <<>>, NDocuments \o <<" ", FS>> }

\* text.strip() and the parsed extension list of each of these texts
StripOf == [text \in NameTexts \cup FolderTexts |-> Strip(text)]
ParsedOf == [text \in ExtensionTexts |-> parse_extensions(text)]

-----------------------------------------------------------------------------
(* Initial filesystem *)

\* The top directory of the model's tree, and its subdirectory
SourceRoot == <<NSrc>>
SubRoot == <<NSrc, NSub>>

\* The files that may lie under the source root when the program starts
Candidates ==
    [image |-> [path |-> <<NSrc, <<"b", ".", "J", "P", "G">> >>, id |-> 1],
     report |-> [path |-> <<NSrc, NReport>>, id |-> 2],
     subreport |-> [path |-> <<NSrc, NSub, NReport>>, id |-> 3],
     other |-> [path |-> <<NSrc, <<"n", ".", "x", "y", "z">> >>, id |-> 4]]

\* FileOrganizerWorker.__init__: dest_dir
worker_dest_dir(source, text) == IF text # <<>> THEN text ELSE Append(source, NOrganized)

\* A filesystem holding the chosen files and, when pre is set, a destination
\* that already holds Documents/r.PDF
InitialFs(chosen, dest, pre) ==
    LET paths == {c.path : c \in chosen}
        prepath == dest \o <<NDocuments, NReport>>
        filepaths == paths \cup (IF pre THEN {prepath} ELSE {})
        dirs == {SourceRoot} \cup
                UNION {Prefixes(SubSeq(p, 1, Len(p) - 1)) : p \in filepaths}
    IN [q \in dirs \cup filepaths |->
          IF q \in paths
          THEN [kind |-> "file", id |-> (CHOOSE c \in chosen : c.path = q).id]
          ELSE IF q \in filepaths THEN [kind |-> "file", id |-> Cardinality(DOMAIN Candidates) + 1]
          ELSE [kind |-> "dir", id |-> 0]]

\* The filesystem f with the directory d made inaccessible
LockedAt(f, d) == [f EXCEPT ![d].kind = "locked"]

\* The filesystem f with the source root made unreadable
Locked(f) == LockedAt(f, SourceRoot)

\* The destination roots of the model: the default one inside the source
\* root, and a directory beside the source root
DestRoots == [nested |-> worker_dest_dir(SourceRoot, <<>>), beside |-> <<NDst>>]

\* The trees the program is started on.  Under the source root: nothing, one
\* file, a matched and an unmatched file, or two files of one name, one of
\* them in a subdirectory; the destination root, inside or beside the source
\* root, may hold Documents/r.PDF already; the source root, the destination
\* root or the Documents folder may be locked
Trees ==
    LET image == Candidates.image
        report == Candidates.report
        subreport == Candidates.subreport
        other == Candidates.other
        nested == DestRoots.nested
        beside == DestRoots.beside
        shapes == { <<{}, nested, FALSE>>,
                    <<{image}, nested, FALSE>>,
                    <<{other, report}, nested, FALSE>>,
                    <<{report, subreport}, nested, TRUE>>,
                    <<{report}, beside, TRUE>> }
    IN {InitialFs(t[1], t[2], t[3]) : t \in {t \in shapes : Cardinality(t[1]) <= MaxFiles}}
       \cup {Locked(InitialFs({report}, beside, FALSE))}
       \cup {LockedAt(InitialFs({c}, nested, TRUE), nested) : c \in {report, other}}
       \cup {LockedAt(InitialFs({report}, d, TRUE), Append(d, NDocuments)) :
                 d \in {nested, beside}}

-----------------------------------------------------------------------------
(* Observations *)

NoMove == [folder |-> <<>>, name |-> <<>>, destination |-> <<>>, taken |-> {}]

NoReference == [valid |-> FALSE, files |-> {}, summary_categories |-> <<>>]

NoPrev == [clean_real |-> FALSE, moved |-> {}, edited |-> FALSE,
           source_dir |-> <<>>, dest_dir |-> <<>>,
           reference |-> NoReference]

\* Names of the entries of a folder
NamesIn(f, folder) ==
    {BaseName(q) : q \in {q \in DOMAIN f : Len(q) = Len(folder) + 1 /\ IsPrefix(folder, q)}}

FreshHist(f, cats, prev) ==
    [fs0 |-> f, file_count0 |-> [k \in 1..Len(cats) |-> cats[k].file_count], edited |-> FALSE,
     stays_disabled |-> {k \in 1..Len(cats) : ~cats[k].enabled},
     failures |-> 0, uncategorized_failures |-> 0,
     stop_while_active |-> FALSE, relocations_after_stop |-> 0,
     routed |-> [k \in 1..Len(cats) |-> 0], route |-> <<>>,
     moved |-> {}, copied |-> {}, last |-> NoMove, prev |-> prev]

\* The worker scans, processes a file or handles the uncategorized files
StopPhases == {"scan", "loop", "classified", "uncategorized"}

\* organize_files has not reached its end
Active == pc \in {"start", "scan", "scanned", "loop", "classified", "uncategorized", "final"}

\* What QThread.isRunning() can answer: true until run() has returned.  After
\* the last statement of organize_files the thread still has to return from
\* run(); whether it has when the GUI asks is a race
isRunning ==
    IF Active THEN {TRUE}
    ELSE IF pc \in {"done", "failed", "aborted"} THEN {TRUE, FALSE}
    ELSE {FALSE}

Emit(evs) == events' = events \o evs

-----------------------------------------------------------------------------
(* Initial state: the GUI after FileOrganizerGUI.__init__, no worker *)

Init ==
    /\ categories = init_default_categories
    /\ source_path = <<>>
    /\ dest_path = <<>>
    /\ fs \in Trees
    /\ closed = FALSE
    /\ asking = FALSE
    /\ waiting = FALSE
    /\ selects = 0
    /\ dry_run_btn = TRUE
    /\ organize_btn = TRUE
    /\ stop_btn = FALSE
    /\ worker = FALSE
    /\ source_dir = <<>>
    /\ dest_dir = <<>>
    /\ dry_run = FALSE
    /\ should_stop = FALSE
    /\ pc = "idle"
    /\ scan_left = {}
    /\ files = <<>>
    /\ i = 0
    /\ category = 0
    /\ organized_count = 0
    /\ uncategorized_files = <<>>
    /\ j = 0
    /\ events = <<>>
    /\ pending = <<>>
    /\ runs = 0
    /\ toggles = 0
    /\ faults = 0
    /\ hist = FreshHist(fs, categories, NoPrev)

-----------------------------------------------------------------------------
(* GUI thread *)

WorkerLocals == <<scan_left, files, i, category, organized_count,
                  uncategorized_files, j>>
Gui == <<dry_run_btn, organize_btn, stop_btn, worker, source_path, dest_path, closed,
        asking, waiting, selects>>
Counters == <<runs, toggles, faults>>

\* The elements of a sequence
Range(seq) == {seq[k] : k \in 1..Len(seq)}

\* The summary the run emitted, when it did
EmittedSummaries == {e \in Range(events) : e.kind = "finished"}
Summary == (CHOOSE e \in EmittedSummaries : TRUE).arg

\* What the run that ended leaves for the next run to be compared with: whether
\* it was a real run that completed without a failed move, and the files it
\* moved then; a completed dry run in which the registry was not edited is a
\* reference for the counts of a later run
PrevOf(h) ==
    LET clean == pc = "done" /\ ~dry_run /\ h.failures + h.uncategorized_failures = 0
    IN
    [clean_real |-> clean,
     moved |-> IF clean THEN h.moved ELSE {},
     edited |-> h.edited \/ h.prev.edited,
     source_dir |-> source_dir,
     dest_dir |-> dest_dir,
     reference |-> IF pc = "done" /\ dry_run /\ ~h.edited
                   THEN [valid |-> TRUE, files |-> Range(files),
                         summary_categories |-> Summary.categories]
                   ELSE NoReference]

\* The main window takes the user's clicks: it is not closed, the modal
\* question of closeEvent is not open in front of it, and closeEvent is not
\* waiting for the thread
Open == ~closed /\ ~asking /\ ~waiting

\* Mutant: the start buttons stay enabled
start_buttons_left_enabled(enabled) == enabled

\* "self.dry_run_btn.setEnabled(False)" and "self.organize_btn.setEnabled(False)"
\* at lines 666-667
start_buttons_disabled(enabled) == FALSE

\* FileOrganizerGUI.start_dry_run / start_organization (confirmed) ->
\* start_operation with a source text (with none, or one that names nothing,
\* a warning is shown and nothing changes).  Path.exists() raises for a
\* source below a directory the process may not search; nothing in the slot
\* catches it and PyQt6 ends the process on an exception a slot lets out
start_operation(dr) ==
    /\ Open
    /\ IF dr THEN dry_run_btn ELSE organize_btn
    /\ runs < MaxRuns
    /\ source_path # <<>>
    /\ IF ExistsRaises(fs, source_path)
       THEN /\ closed' = TRUE
            /\ UNCHANGED <<categories, fs, source_path, dest_path, dry_run_btn,
                           organize_btn, stop_btn, worker, asking, waiting, selects, source_dir,
                           dest_dir,
                           dry_run, should_stop, pc, WorkerLocals, events, pending,
                           Counters, hist>>
       ELSE /\ Exists(fs, source_path)
            /\ dry_run_btn' = start_buttons_disabled(dry_run_btn)
            /\ organize_btn' = start_buttons_disabled(organize_btn)
            /\ stop_btn' = TRUE
            /\ worker' = TRUE
            /\ source_dir' = source_path
            /\ dest_dir' = worker_dest_dir(source_path, dest_path)
            /\ dry_run' = dr
            /\ should_stop' = FALSE
            /\ pc' = "start"
            /\ scan_left' = {}
            /\ files' = <<>>
            /\ i' = 0
            /\ category' = 0
            /\ organized_count' = 0
            /\ uncategorized_files' = <<>>
            /\ j' = 0
            /\ events' = <<>>
            /\ runs' = runs + 1
            /\ hist' = FreshHist(fs, categories, hist.prev)
            /\ UNCHANGED <<categories, fs, source_path, dest_path, closed, asking, waiting, selects,
                           pending, toggles, faults>>

StartOperation == \E dr \in BOOLEAN : start_operation(dr)

\* FileOrganizerGUI.stop_organization, by a click on the enabled Stop button
StopOrganization ==
    /\ Open
    /\ stop_btn
    /\ IF worker
       THEN /\ should_stop' = TRUE
            /\ stop_btn' = FALSE
            /\ hist' = [hist EXCEPT !.stop_while_active = @ \/ pc \in StopPhases]
       ELSE UNCHANGED <<should_stop, stop_btn, hist>>
    /\ UNCHANGED <<categories, fs, source_path, dest_path, closed, asking, waiting, selects,
                   dry_run_btn, organize_btn, worker, source_dir, dest_dir, dry_run, pc,
                   WorkerLocals, events, pending, Counters>>

\* FileOrganizerGUI.reset_ui_after_operation: the buttons are reset and the
\* worker, whose thread has ended, is released with all it held
reset_ui_after_operation ==
    /\ dry_run_btn' = TRUE
    /\ organize_btn' = TRUE
    /\ stop_btn' = FALSE
    /\ worker' = FALSE
    /\ source_dir' = <<>>
    /\ dest_dir' = <<>>
    /\ dry_run' = FALSE
    /\ should_stop' = FALSE
    /\ pc' = "idle"
    /\ scan_left' = {}
    /\ files' = <<>>
    /\ i' = 0
    /\ category' = 0
    /\ organized_count' = 0
    /\ uncategorized_files' = <<>>
    /\ j' = 0
    /\ events' = <<>>
    /\ hist' = FreshHist(fs, categories, PrevOf(hist))

\* FileOrganizerGUI.on_operation_finished, the slot of the finished signal.
\* The queued call is run by the event loop of the GUI thread: not while
\* closeEvent holds that thread in wait(2000), but also after the close event
\* was accepted, the slot staying connected and the loop running what is
\* queued before it quits
OnOperationFinished ==
    /\ ~waiting
    /\ pending # <<>>
    /\ Head(pending) = "finished"
    /\ pending' = Tail(pending)
    /\ reset_ui_after_operation
    /\ UNCHANGED <<categories, fs, source_path, dest_path, closed, asking, waiting, selects,
                   Counters>>

\* FileOrganizerGUI.on_error, the slot of the error_occurred signal, run by
\* the event loop as on_operation_finished is
OnError ==
    /\ ~waiting
    /\ pending # <<>>
    /\ Head(pending) = "error"
    /\ pending' = Tail(pending)
    /\ reset_ui_after_operation
    /\ UNCHANGED <<categories, fs, source_path, dest_path, closed, asking, waiting, selects,
                   Counters>>

\* The categories added so far
Customs == Len(categories) - Len(init_default_categories)

\* What varies in a behaviour of the model: each kind within its bound, and
\* all of them together, in any combination, within MaxVariations
Variations == toggles + Customs + selects + faults
MayToggle == toggles < MaxToggles /\ Variations < MaxVariations
MayAddCategory == Customs < MaxCustom /\ Variations < MaxVariations
MayChooseDirectory == selects < MaxSelects /\ Variations < MaxVariations
MayFail == faults < MaxFaults /\ Variations < MaxVariations

\* The registry is edited only while a run is in progress or can still be
\* started: an edit after the last run of the behaviour is read by nothing
Observable == Open /\ (Active \/ runs < MaxRuns)

\* The texts the source field is given, by the Browse dialog or typed
SourceTexts == {SourceRoot, SubRoot}

\* FileOrganizerGUI.select_source_directory with a directory chosen (or the
\* field edited).  The first choice, without which no run starts, is not
\* counted as an edit
select_source_directory(directory) ==
    /\ Open
    /\ runs < MaxRuns
    /\ source_path = <<>> \/ MayChooseDirectory
    /\ directory # source_path
    /\ source_path' = directory
    /\ selects' = IF source_path = <<>> THEN selects ELSE selects + 1
    /\ UNCHANGED <<categories, fs, dest_path, dry_run_btn, organize_btn, stop_btn, worker,
                   closed, asking, waiting, source_dir, dest_dir, dry_run, should_stop, pc,
                   WorkerLocals, events, pending, Counters, hist>>

SelectSourceDirectory == \E directory \in SourceTexts : select_source_directory(directory)

\* The texts the destination field is given, by the Browse dialog or typed
DestTexts == {<<>>, <<NDst>>}

\* FileOrganizerGUI.select_dest_directory with a directory chosen (or the
\* field edited): the text is read by the next start_operation only, so it is
\* changed while a run can still be started
select_dest_directory(directory) ==
    /\ Open
    /\ runs < MaxRuns
    /\ MayChooseDirectory
    /\ directory # dest_path
    /\ dest_path' = directory
    /\ selects' = selects + 1
    /\ UNCHANGED <<categories, fs, source_path, dry_run_btn, organize_btn, stop_btn,
                   worker, closed, asking, waiting, source_dir, dest_dir, dry_run, should_stop, pc,
                   WorkerLocals, events, pending, Counters, hist>>

SelectDestDirectory == \E directory \in DestTexts : select_dest_directory(directory)

\* FileOrganizerGUI.closeEvent, lines 749-755 and 767-768: the user closes the
\* window.  While the worker's thread runs ("self.worker and
\* self.worker.isRunning()", running) the question is opened; QMessageBox
\* runs an event loop of its own, in which queued signals are delivered while
\* the worker goes on.  Otherwise the event is accepted
closeEvent(running) ==
    /\ Open
    /\ IF worker /\ running
       THEN /\ asking' = TRUE
            /\ UNCHANGED closed
       ELSE /\ closed' = TRUE
            /\ UNCHANGED asking
    /\ UNCHANGED <<categories, fs, source_path, dest_path, dry_run_btn, organize_btn, stop_btn,
                   worker, waiting, selects, source_dir, dest_dir, dry_run, should_stop, pc,
                   WorkerLocals, events, pending, Counters, hist>>

CloseEvent == \E running \in isRunning : closeEvent(running)

\* FileOrganizerGUI.closeEvent, lines 757-761 and 765-766: the question is
\* answered.  Yes: stop() is called on the worker, the Stop button stays as it
\* is, and the handler waits for the thread (quit(), wait(2000)), the worker
\* going on meanwhile; when a summary or error was handled while the question
\* was open, self.worker is None, "self.worker.stop()" raises and the process
\* ends.  No: the event is ignored
closeEvent_answered(reply) ==
    /\ asking
    /\ asking' = FALSE
    /\ IF reply = "Yes"
       THEN IF worker
            THEN /\ should_stop' = TRUE
                 /\ waiting' = TRUE
                 /\ hist' = [hist EXCEPT !.stop_while_active = @ \/ pc \in StopPhases]
                 /\ UNCHANGED closed
            ELSE /\ closed' = TRUE
                 /\ UNCHANGED <<waiting, should_stop, hist>>
       ELSE UNCHANGED <<closed, waiting, should_stop, hist>>
    /\ UNCHANGED <<categories, fs, source_path, dest_path, dry_run_btn, organize_btn, stop_btn,
                   worker, selects, source_dir, dest_dir, dry_run, pc, WorkerLocals, events,
                   pending, Counters>>

\* FileOrganizerGUI.closeEvent, lines 761-764: wait(2000) returns, the thread
\* having ended or the 2 s being over, and the event is accepted
closeEvent_accepted ==
    /\ waiting
    /\ waiting' = FALSE
    /\ closed' = TRUE
    /\ UNCHANGED <<categories, fs, source_path, dest_path, dry_run_btn, organize_btn, stop_btn,
                   worker, asking, selects, source_dir, dest_dir, dry_run, should_stop, pc,
                   WorkerLocals, events, pending, Counters, hist>>

\* hist after a registry edit: the edit is noted from the start of a run until
\* the GUI has handled its end, and the earlier dry run no longer is a
\* reference for the registry as it is now
Edited(h, cats) ==
    [h EXCEPT !.edited = h.edited \/ pc # "idle",
              !.routed = [k \in 1..Len(cats) |-> IF k <= Len(h.routed) THEN h.routed[k] ELSE 0],
              !.file_count0 = [k \in 1..Len(cats) |->
                                  IF k <= Len(h.file_count0) THEN h.file_count0[k] ELSE 0],
              !.prev.reference = NoReference]

\* CategoryWidget.on_enabled_changed, by a click on the checkbox of category k
on_enabled_changed(k) ==
    /\ Observable
    /\ categories' = [categories EXCEPT ![k].enabled = ~categories[k].enabled]
    /\ toggles' = toggles + 1
    /\ hist' = [Edited(hist, categories') EXCEPT !.stays_disabled = @ \ {k}]
    /\ UNCHANGED <<fs, Gui, source_dir, dest_dir, dry_run, should_stop, pc, WorkerLocals,
                   events, pending, runs, faults>>

\* The checkboxes clicked are those of the categories that declare the
\* extension of a file the tree holds
HeldExtensions(f) == {FileInfo(q).extension : q \in {q \in DOMAIN f : f[q].kind = "file"}}

Clickable(cats) ==
    {k \in 1..Len(cats) :
        \E extension \in HeldExtensions(fs) : matches_extension(cats[k], extension)}

OnEnabledChanged ==
    /\ MayToggle
    /\ \E k \in Clickable(categories) : on_enabled_changed(k)

\* Mutant: the fields are not validated
registry_after_unchecked_add(cats, name_text, extensions_text, folder_text) ==
    Append(cats, FileCategory(StripOf[name_text], ParsedOf[extensions_text],
                              StripOf[folder_text]))

\* add_custom_category, lines 628-639: the registry after the dialog was
\* accepted with these texts
registry_after_add(cats, name_text, extensions_text, folder_text) ==
    LET name == StripOf[name_text]
        extensions == ParsedOf[extensions_text]
        folder == StripOf[folder_text]
    IN IF name # <<>> /\ extensions # <<>> /\ folder # <<>>
       THEN Append(cats, FileCategory(name, extensions, folder))
       ELSE cats

\* FileOrganizerGUI.add_custom_category with the dialog accepted
add_custom_category(name_text, extensions_text, folder_text) ==
    LET added == registry_after_add(categories, name_text, extensions_text, folder_text)
    IN /\ MayAddCategory
       /\ Observable
       /\ IF Len(added) # Len(categories)
          THEN /\ categories' = added
               /\ hist' = Edited(hist, categories')
          ELSE UNCHANGED <<categories, hist>>
       /\ UNCHANGED <<fs, Gui, source_dir, dest_dir, dry_run, should_stop, pc, WorkerLocals,
                      events, pending, Counters>>

AddCustomCategory ==
    \E n \in NameTexts, e \in ExtensionTexts, f \in FolderTexts :
        add_custom_category(n, e, f)

-----------------------------------------------------------------------------
(* Worker thread: FileOrganizerWorker.run -> organize_files *)

Log(tag) == [kind |-> "log", arg |-> tag]
Status(tag) == [kind |-> "status", arg |-> tag]
Progress(n) == [kind |-> "progress", arg |-> n]
Finished(summary) == [kind |-> "finished", arg |-> summary]
ErrorOccurred(tag) == [kind |-> "error", arg |-> tag]

\* Mutant: glob("*") in place of rglob("*"), the entries of the root only
ScanTopLevel(f, root) ==
    IF f[root].kind = "dir"
    THEN {q \in DOMAIN f : Len(q) = Len(root) + 1 /\ InParents(root, q)}
    ELSE {}

\* source_dir.rglob("*") raises at its first step: the is_dir() test of a
\* root below a directory the process may not search is not guarded
RglobRaises(f, root) == Denied(f, root)

\* The entries source_dir.rglob("*") yields when it does not raise:
\* everything below the source root; pathlib swallows the PermissionError of
\* a directory it may not list: a locked directory below the root is yielded
\* without what it holds, a locked root yields nothing
ScanEntries(f, root) ==
    IF IsListable(f, root)
    THEN {q \in DOMAIN f : InParents(root, q) /\ ~Denied(f, q)}
    ELSE {}

\* hist after a relocation is attempted
Attempted(h) ==
    [h EXCEPT !.relocations_after_stop =
                 h.relocations_after_stop + (IF should_stop THEN 1 ELSE 0)]

\* hist after the file at src was moved to destination in folder
Relocated(h, f, folder, src, destination) ==
    [Attempted(h) EXCEPT
        !.moved = h.moved \cup {f[src].id},
        !.last = [folder |-> folder, name |-> BaseName(src),
                  destination |-> destination, taken |-> NamesIn(f, folder)]]

\* hist after shutil.move left a copy of the file at src and raised
Duplicated(h, f, src) == [h EXCEPT !.copied = h.copied \cup {f[src].id}]

\* hist after the except clause of move_file / of handle_uncategorized_files
\* was reached; shutil.move was called (attempted) or an earlier call raised
FailedMove(h, attempted) ==
    [(IF attempted THEN Attempted(h) ELSE h) EXCEPT !.failures = h.failures + 1]
FailedUncategorized(h, attempted) ==
    [(IF attempted THEN Attempted(h) ELSE h)
        EXCEPT !.uncategorized_failures = h.uncategorized_failures + 1]

\* hist after the file at path was dispatched to category c (0: uncategorized)
Routed(h, path, c) ==
    [h EXCEPT !.route = [q \in DOMAIN h.route \cup {path} |->
                            IF q = path THEN c ELSE h.route[q]]]

\* organize_files, lines 73-81: the opening log and status signals; rglob
\* starts to enumerate, or raises and the scan's except clause (86-88)
\* reports it
RunStart ==
    /\ pc = "start"
    /\ IF RglobRaises(fs, source_dir)
       THEN /\ Emit(<<Log("starting"), Log("source"), Log("destination"),
                      Status("scanning"), ErrorOccurred("scan")>>)
            /\ pending' = Append(pending, "error")
            /\ pc' = "failed"
            /\ UNCHANGED scan_left
       ELSE /\ Emit(<<Log("starting"), Log("source"), Log("destination"),
                      Status("scanning")>>)
            /\ scan_left' = ScanEntries(fs, source_dir)
            /\ pc' = IF scan_left' = {} THEN "scanned" ELSE "scan"
            /\ UNCHANGED pending
    /\ UNCHANGED <<categories, fs, Gui,
                   source_dir, dest_dir, dry_run, should_stop, files, i,
                   category, organized_count, uncategorized_files, j,
                   Counters, hist>>

\* The entries rglob may yield next, left being those it has not yielded:
\* rglob walks the directories in pre-order and yields the entries of a
\* directory together, so the entries of dir come first, then all that is
\* below one of its subdirectories, then all below the next.  The order of
\* the entries of one directory is the order of the listing, which the code
\* does not control
RECURSIVE entries_from(_, _, _)
entries_from(f, left, dir) ==
    LET direct == {e \in left : Len(e) = Len(dir) + 1 /\ IsPrefix(dir, e)}
        subs == {d \in DOMAIN f :
                    /\ Len(d) = Len(dir) + 1 /\ IsPrefix(dir, d)
                    /\ \E e \in left : InParents(d, e)}
        begun == {d \in subs :
                    \E q \in DOMAIN f : InParents(d, q) /\ ~Denied(f, q) /\ q \notin left}
    IN IF direct # {} THEN direct
       ELSE UNION {entries_from(f, left, d) : d \in (IF begun # {} THEN begun ELSE subs)}

NextEntries(f, left, root) == entries_from(f, left, root)

\* Mutant: the flag is not read
stop_never_observed(flag) == FALSE

\* "if self.should_stop: return" at lines 82 and 108
stop_observed(flag) == flag

\* Mutant: no file is skipped
under_no_destination(dest, path) == FALSE

\* "if self.dest_dir in file_info.path.parents: continue" at line 115
under_destination(dest, path) == InParents(dest, path)

\* Mutant: the count is not kept
not_counted(cats, c) == cats

\* "category.increment_count()" after the move, at line 169
counted_after_move(cats, c) == increment_count(cats, c)

\* Mutant: a failed move is counted as organized
organized_always(moved, n) == n + 1

\* "if self.move_file(file_info, category): organized_count += 1" at lines
\* 126-127
organized_after(moved, n) == IF moved THEN n + 1 ELSE n

\* Mutant: the mode is not read
handles_uncategorized_always(unmatched, dry) == unmatched # <<>>

\* "if not self.dry_run: self.dest_dir.mkdir(...)" at lines 97-98
makes_destination_root(dry) == ~dry

\* "if uncategorized_files and not self.dry_run" at line 131
handles_uncategorized(unmatched, dry) == unmatched # <<>> /\ ~dry

\* organize_files, lines 81-85: one pass of the scan loop, on the entry rglob
\* yields
scan_entry(e) ==
    /\ pc = "scan"
    /\ e \in NextEntries(fs, scan_left, source_dir)
    /\ IF stop_observed(should_stop)
       THEN /\ pc' = "aborted"
            /\ UNCHANGED <<scan_left, files, events, pending>>
       ELSE IF IsFileRaises(fs, e)
       THEN /\ Emit(<<ErrorOccurred("scan")>>)
            /\ pending' = Append(pending, "error")
            /\ pc' = "failed"
            /\ UNCHANGED <<scan_left, files>>
       ELSE /\ files' = IF IsFile(fs, e) THEN Append(files, FileInfo(e)) ELSE files
            /\ scan_left' = scan_left \ {e}
            /\ pc' = IF scan_left' = {} THEN "scanned" ELSE "scan"
            /\ UNCHANGED <<events, pending>>
    /\ UNCHANGED <<categories, fs, Gui,
                   source_dir, dest_dir, dry_run, should_stop, i, category,
                   organized_count, uncategorized_files, j, Counters, hist>>

ScanEntry == \E e \in scan_left : scan_entry(e)

\* organize_files, lines 86-88: the enumeration raises
ScanRaises ==
    /\ pc = "scan"
    /\ MayFail
    /\ faults' = faults + 1
    /\ Emit(<<ErrorOccurred("scan")>>)
    /\ pending' = Append(pending, "error")
    /\ pc' = "failed"
    /\ UNCHANGED <<categories, fs, Gui,
                   source_dir, dest_dir, dry_run, should_stop, WorkerLocals,
                   runs, toggles, hist>>

ZeroSummary == [total_files |-> 0, organized |-> 0, uncategorized |-> 0,
                categories |-> <<>>]

\* Mutant: the empty case is not told apart
found_none_never(fileList) == FALSE

\* "if not files" at line 90
found_none(fileList) == fileList = <<>>

\* organize_files, lines 90-105: the empty case, or the destination root is
\* made (real run) and the counters are reset; fault: mkdir, which would have
\* returned, raises for a reason outside the model, and run() reports the
\* exception
after_scan(fault) ==
    /\ pc = "scanned"
    /\ IF found_none(files)
       THEN /\ ~fault
            /\ Emit(<<Log("no files"), Finished(ZeroSummary)>>)
            /\ pending' = Append(pending, "finished")
            /\ pc' = "done"
            /\ UNCHANGED <<categories, fs, faults>>
       ELSE IF makes_destination_root(dry_run) /\ (fault \/ MkdirRaises(fs, dest_dir))
       THEN /\ fault => MayFail /\ ~MkdirRaises(fs, dest_dir)
            /\ faults' = faults + (IF fault THEN 1 ELSE 0)
            /\ Emit(<<Log("found"), ErrorOccurred("exception")>>)
            /\ pending' = Append(pending, "error")
            /\ pc' = "failed"
            /\ UNCHANGED <<categories, fs>>
       ELSE /\ ~fault
            /\ Emit(<<Log("found")>>)
            /\ fs' = IF makes_destination_root(dry_run) THEN Mkdir(fs, dest_dir) ELSE fs
            /\ categories' = reset_counts(categories)
            /\ pc' = "loop"
            /\ UNCHANGED <<pending, faults>>
    /\ i' = 0
    /\ organized_count' = 0
    /\ uncategorized_files' = <<>>
    /\ UNCHANGED <<Gui,
                   source_dir, dest_dir, dry_run, should_stop, scan_left, files, category, j,
                   runs, toggles, hist>>

AfterScan == \E fault \in BOOLEAN : after_scan(fault)

\* Binary floating-point arithmetic of "int((i / len(files)) * 100)": Python
\* divides two ints into the nearest double, multiplies by 100 into the
\* nearest double, and int() truncates.  A natural number is a sequence of
\* bits, lowest first, so that the 53-bit significand fits

\* The natural of at most 30 bits that bits, lowest first, stand for
RECURSIVE NatOf(_)
NatOf(bits) == IF bits = <<>> THEN 0 ELSE Head(bits) + 2 * NatOf(Tail(bits))

RECURSIVE TwoTo(_)
TwoTo(k) == IF k = 0 THEN 1 ELSE 2 * TwoTo(k - 1)

\* a + 1 on a bit sequence, lowest bit first
Increment(a) ==
    IF \A m \in 1..Len(a) : a[m] = 1 THEN [m \in 1..Len(a) |-> 0] \o <<1>>
    ELSE LET low == CHOOSE m \in 1..Len(a) : a[m] = 0 /\ \A h \in 1..(m - 1) : a[h] = 1
         IN [m \in 1..Len(a) |-> IF m < low THEN 0 ELSE IF m = low THEN 1 ELSE a[m]]

\* A long natural is multiplied in limbs of LimbBits bits, lowest first
LimbBits == 12 + 1

Limbs(bits) ==
    [h \in 1..((Len(bits) + LimbBits - 1) \div LimbBits) |->
        NatOf(SubSeq(bits, (h - 1) * LimbBits + 1,
                     IF h * LimbBits < Len(bits) THEN h * LimbBits ELSE Len(bits)))]

\* The bits of the limbs, without the zero bits above the highest set bit
BitsOfLimbs(limbs) ==
    LET all == [m \in 1..(Len(limbs) * LimbBits) |->
                   (limbs[(m - 1) \div LimbBits + 1] \div TwoTo((m - 1) % LimbBits)) % 2]
        set == {m \in 1..Len(all) : all[m] = 1}
    IN IF set = {} THEN <<>>
       ELSE SubSeq(all, 1, CHOOSE m \in set : \A h \in set : h <= m)

\* limbs * c + carry, for c below 2^17
RECURSIVE TimesSmall(_, _, _)
TimesSmall(limbs, c, carry) ==
    IF limbs = <<>> THEN (IF carry = 0 THEN <<>> ELSE <<carry>>)
    ELSE LET p == Head(limbs) * c + carry
         IN <<p % TwoTo(LimbBits)>> \o TimesSmall(Tail(limbs), c, p \div TwoTo(LimbBits))

\* a * 100 on a bit sequence
TimesHundred(a) == BitsOfLimbs(TimesSmall(Limbs(a), 100, 0))

\* The width of a double's significand
Precision == 52 + 1

\* Round to nearest, ties to even: the natural a (its top bit set), of which
\* a nonzero part below its lowest bit was cut off when sticky is set, is
\* rounded to Precision bits.  The result is [bits, shift], bits * 2^shift
\* being the rounded value
RoundNearestEven(a, sticky) ==
    LET cut == Len(a) - Precision
    IN IF cut <= 0 THEN [bits |-> a, shift |-> 0]
       ELSE LET kept == SubSeq(a, cut + 1, Len(a))
                half == a[cut]
                below == sticky \/ \E m \in 1..(cut - 1) : a[m] = 1
                up == half = 1 /\ (below \/ kept[1] = 1)
            IN [bits |-> IF up THEN Increment(kept) ELSE kept, shift |-> cut]

\* The leading zero bits of the binary fraction r / n, for 0 < r < n
RECURSIVE LeadingZeros(_, _)
LeadingZeros(r, n) == IF 2 * r >= n THEN 0 ELSE 1 + LeadingZeros(2 * r, n)

\* The binary fraction r / n (r < n) is developed three bits at a time
DigitBits == 2 + 1

\* The next count octal digits of the fraction r / n, highest first, and the
\* remainder left after them
RECURSIVE FractionDigits(_, _, _)
FractionDigits(r, n, count) ==
    IF count = 0 THEN [digits |-> <<>>, rem |-> r]
    ELSE LET rest == FractionDigits((TwoTo(DigitBits) * r) % n, n, count - 1)
         IN [digits |-> <<(TwoTo(DigitBits) * r) \div n>> \o rest.digits, rem |-> rest.rem]

\* The bits of these digits, lowest bit first
BitsOfDigits(digits) ==
    [m \in 1..(Len(digits) * DigitBits) |->
        (digits[Len(digits) - (m - 1) \div DigitBits] \div TwoTo((m - 1) % DigitBits)) % 2]

\* The double k / n for 0 < k < n < 2^28, as [bits, exp]: bits * 2^exp.  The
\* quotient is developed to one bit more than the significand holds, from its
\* first set bit on, and rounded
float_div(k, n) ==
    LET z == LeadingZeros(k, n)
        q == FractionDigits(k * TwoTo(z), n, (Precision + 1) \div DigitBits)
        r == RoundNearestEven(BitsOfDigits(q.digits), q.rem # 0)
    IN [bits |-> r.bits, exp |-> r.shift - (z + Precision + 1)]

\* The double d * 100
float_times_hundred(d) ==
    LET r == RoundNearestEven(TimesHundred(d.bits), FALSE)
    IN [bits |-> r.bits, exp |-> d.exp + r.shift]

\* int(d) for a double d >= 0 below 2^30
float_to_int(d) ==
    IF d.exp >= 0 THEN NatOf([m \in 1..d.exp |-> 0] \o d.bits)
    ELSE IF -d.exp >= Len(d.bits) THEN 0
    ELSE NatOf(SubSeq(d.bits, 1 - d.exp, Len(d.bits)))

\* "progress = int((i / len(files)) * 100)" at line 111, for 0 <= k < n
progress_of(k, n) ==
    IF k = 0 THEN 0 ELSE float_to_int(float_times_hundred(float_div(k, n)))

\* The lists of the model hold the files of the tree: those under the source
\* root, the one the destination holds and the copies failed moves left
MaxListed == MaxFiles + 1 + MaxFaults

\* progress_of for the lists of the model, by length and index
ProgressOf == [n \in 1..MaxListed |-> [k \in 0..(n - 1) |-> progress_of(k, n)]]

\* organize_files, lines 107-118: the head of one pass of the processing loop,
\* up to the classification of the file
LoopHead ==
    /\ pc = "loop"
    /\ i < Len(files)
    /\ IF stop_observed(should_stop)
       THEN /\ pc' = "aborted"
            /\ UNCHANGED <<i, category, events>>
       ELSE LET file_info == files[i + 1]
            IN /\ Emit(<<Progress(ProgressOf[Len(files)][i]), Status("processing")>>)
               /\ IF under_destination(dest_dir, file_info.path)
                  THEN /\ i' = i + 1
                       /\ UNCHANGED <<pc, category>>
                  ELSE /\ category' = get_category_for_extension(categories,
                                                                 file_info.extension)
                       /\ pc' = "classified"
                       /\ UNCHANGED i
    /\ UNCHANGED <<categories, fs, Gui,
                   source_dir, dest_dir, dry_run, should_stop, scan_left,
                   files, organized_count, uncategorized_files, j, pending,
                   Counters, hist>>

\* FileOrganizerWorker.move_file and its caller, lines 126-127 and 153-175;
\* fault: "none", or the call that raises for a reason outside the model:
\* mkdir, shutil.move before anything is written ("move"), or shutil.move
\* after it has copied the file ("unlink")
move_file(file_info, c, fault) ==
    LET category_path == Append(dest_dir, categories[c].folder_name)
        made == Mkdir(fs, category_path)
        destination == choose_destination(made, category_path, file_info)
        reaches_move == /\ ~MkdirRaises(fs, category_path)
                        /\ ~ExistsRaises(made, Append(category_path, file_info.name))
    IN \* an injected failure is the failure of a call that was reached and
       \* would have returned
       /\ fault = "mkdir" => ~MkdirRaises(fs, category_path)
       /\ fault \in {"move", "unlink"} =>
             reaches_move /\ ~MoveRaises(made, file_info.path, destination)
       /\ IF fault = "mkdir" \/ MkdirRaises(fs, category_path)
          THEN /\ Emit(<<Log("error moving")>>)
               /\ organized_count' = organized_after(FALSE, organized_count)
               /\ hist' = Routed(FailedMove(hist, FALSE), file_info.path, c)
               /\ UNCHANGED <<fs, categories>>
          ELSE IF ExistsRaises(made, Append(category_path, file_info.name))
          THEN /\ fs' = made
               /\ Emit(<<Log("error moving")>>)
               /\ organized_count' = organized_after(FALSE, organized_count)
               /\ hist' = Routed(FailedMove(hist, FALSE), file_info.path, c)
               /\ UNCHANGED categories
          ELSE IF fault = "move" \/ MoveRaises(made, file_info.path, destination)
          THEN /\ fs' = made
               /\ Emit(<<Log("error moving")>>)
               /\ organized_count' = organized_after(FALSE, organized_count)
               /\ hist' = Routed(FailedMove(hist, TRUE), file_info.path, c)
               /\ UNCHANGED categories
          ELSE IF fault = "unlink"
          THEN /\ fs' = Copied(made, file_info.path, destination)
               /\ Emit(<<Log("error moving")>>)
               /\ organized_count' = organized_after(FALSE, organized_count)
               /\ hist' = Routed(FailedMove(Duplicated(hist, made, file_info.path), TRUE),
                                 file_info.path, c)
               /\ UNCHANGED categories
          ELSE /\ fs' = Move(made, file_info.path, destination)
               /\ categories' = counted_after_move(categories, c)
               /\ Emit(<<Log("moved")>>)
               /\ organized_count' = organized_after(TRUE, organized_count)
               /\ hist' = [Routed(Relocated(hist, made, category_path, file_info.path,
                                            destination), file_info.path, c)
                             EXCEPT !.routed[c] = @ + 1]

\* organize_files, lines 120-129: the classified file is counted (dry run),
\* moved (real run) or put on the uncategorized list
dispatch(fault) ==
    /\ pc = "classified"
    /\ fault # "none" => MayFail
    /\ faults' = faults + (IF fault = "none" THEN 0 ELSE 1)
    /\ LET file_info == files[i + 1]
       IN IF category # 0 /\ categories[category].enabled
          THEN /\ IF dry_run
                  THEN /\ fault = "none"
                       /\ categories' = increment_count(categories, category)
                       /\ organized_count' = organized_count + 1
                       /\ Emit(<<Log("would move")>>)
                       /\ hist' = [Routed(hist, file_info.path, category)
                                      EXCEPT !.routed[category] = @ + 1]
                       /\ UNCHANGED fs
                  ELSE move_file(file_info, category, fault)
               /\ UNCHANGED uncategorized_files
          ELSE /\ fault = "none"
               /\ uncategorized_files' = Append(uncategorized_files, file_info)
               /\ hist' = Routed(hist, file_info.path, 0)
               /\ UNCHANGED <<categories, fs, organized_count, events>>
    /\ i' = i + 1
    /\ pc' = "loop"
    /\ UNCHANGED <<Gui,
                   source_dir, dest_dir, dry_run, should_stop, scan_left, files, category, j,
                   pending, runs, toggles>>

Dispatch == \E fault \in {"none", "mkdir", "move", "unlink"} : dispatch(fault)

\* organize_files, lines 131-132, and handle_uncategorized_files, lines
\* 178-182: after the last file the Uncategorized folder is made (real run
\* with unmatched files); fault: mkdir raises for a reason outside the model
loop_exit(fault) ==
    /\ pc = "loop"
    /\ i = Len(files)
    /\ LET uncategorized_path == Append(dest_dir, NUncategorized)
       IN IF handles_uncategorized(uncategorized_files, dry_run)
          THEN IF fault \/ MkdirRaises(fs, uncategorized_path)
               THEN /\ fault => MayFail /\ ~MkdirRaises(fs, uncategorized_path)
                    /\ faults' = faults + (IF fault THEN 1 ELSE 0)
                    /\ Emit(<<ErrorOccurred("exception")>>)
                    /\ pending' = Append(pending, "error")
                    /\ pc' = "failed"
                    /\ UNCHANGED fs
               ELSE /\ fs' = Mkdir(fs, uncategorized_path)
                    /\ pc' = "uncategorized"
                    /\ UNCHANGED <<events, pending, faults>>
          ELSE /\ ~fault
               /\ pc' = "final"
               /\ UNCHANGED <<fs, events, pending, faults>>
    /\ j' = 0
    /\ UNCHANGED <<categories, Gui,
                   source_dir, dest_dir, dry_run, should_stop, scan_left, files,
                   i, category, organized_count, uncategorized_files, runs, toggles,
                   hist>>

LoopExit == \E fault \in BOOLEAN : loop_exit(fault)

\* Mutant: the loop is left at the first file whose move fails
uncategorized_stops_on_failure(failed, k, n) == IF failed THEN n ELSE k + 1

\* The "for file_info in uncategorized_files" loop with the try inside its
\* body, lines 184-199: the index after the pass on the file at index k of n
uncategorized_next(failed, k, n) == k + 1

\* handle_uncategorized_files, lines 184-199: one pass of its loop; fault:
\* "none", or shutil.move raises for a reason outside the model, before
\* anything is written ("move") or after it has copied the file ("unlink")
move_uncategorized(fault) ==
    /\ pc = "uncategorized"
    /\ j < Len(uncategorized_files)
    /\ fault # "none" => MayFail
    /\ faults' = faults + (IF fault = "none" THEN 0 ELSE 1)
    /\ LET file_info == uncategorized_files[j + 1]
           uncategorized_path == Append(dest_dir, NUncategorized)
           destination == choose_destination(fs, uncategorized_path, file_info)
           unsearchable == ExistsRaises(fs, Append(uncategorized_path, file_info.name))
           raises == unsearchable \/ MoveRaises(fs, file_info.path, destination)
           failed == raises \/ fault # "none"
       IN /\ fault # "none" => ~raises
          /\ IF raises \/ fault = "move"
             THEN /\ Emit(<<Log("error moving uncategorized")>>)
                  /\ hist' = FailedUncategorized(hist, ~unsearchable)
                  /\ UNCHANGED fs
             ELSE IF fault = "unlink"
             THEN /\ fs' = Copied(fs, file_info.path, destination)
                  /\ Emit(<<Log("error moving uncategorized")>>)
                  /\ hist' = FailedUncategorized(Duplicated(hist, fs, file_info.path), TRUE)
             ELSE /\ fs' = Move(fs, file_info.path, destination)
                  /\ Emit(<<Log("moved uncategorized")>>)
                  /\ hist' = Relocated(hist, fs, uncategorized_path, file_info.path,
                                       destination)
          /\ j' = uncategorized_next(failed, j, Len(uncategorized_files))
    /\ pc' = IF j' = Len(uncategorized_files) THEN "final" ELSE "uncategorized"
    /\ UNCHANGED <<categories, Gui,
                   source_dir, dest_dir, dry_run, should_stop, scan_left, files,
                   i, category, organized_count, uncategorized_files, pending,
                   runs, toggles>>

MoveUncategorized == \E fault \in {"none", "move", "unlink"} : move_uncategorized(fault)

\* Mutant: total_files counts the organized and the uncategorized files only
summary_without_rest(cats, fileList, organized, uncategorized) ==
    [total_files |-> organized + Len(uncategorized),
     organized |-> organized,
     uncategorized |-> Len(uncategorized),
     categories |-> summary_categories(cats)]

\* organize_files, lines 137-142
summary_of(cats, fileList, organized, uncategorized) ==
    [total_files |-> Len(fileList),
     organized |-> organized,
     uncategorized |-> Len(uncategorized),
     categories |-> summary_categories(cats)]

\* Mutant: the summary is emitted before the closing signals
summary_first(summary) ==
    <<Finished(summary), Progress(100), Status("complete"), Log("complete")>>

\* organize_files, lines 134-135 and 144-145: the signals of a completed run
completion_signals(summary) ==
    <<Progress(100), Status("complete"), Log("complete"), Finished(summary)>>

\* organize_files, lines 134-145: the closing signals and the summary
Finalize ==
    /\ pc = "final"
    /\ Emit(completion_signals(summary_of(categories, files, organized_count,
                                          uncategorized_files)))
    /\ pending' = Append(pending, "finished")
    /\ pc' = "done"
    /\ UNCHANGED <<categories, fs, Gui,
                   source_dir, dest_dir, dry_run, should_stop, WorkerLocals,
                   Counters, hist>>

-----------------------------------------------------------------------------

Next ==
    \/ StartOperation
    \/ StopOrganization
    \/ OnOperationFinished
    \/ OnError
    \/ OnEnabledChanged
    \/ AddCustomCategory
    \/ SelectSourceDirectory
    \/ SelectDestDirectory
    \/ CloseEvent
    \/ \E reply \in {"Yes", "No"} : closeEvent_answered(reply)
    \/ closeEvent_accepted
    \/ RunStart
    \/ ScanEntry
    \/ ScanRaises
    \/ AfterScan
    \/ LoopHead
    \/ Dispatch
    \/ LoopExit
    \/ MoveUncategorized
    \/ Finalize

Spec == Init /\ [][Next]_vars

\* A step of the worker thread
WorkerStep ==
    \/ RunStart
    \/ ScanEntry
    \/ ScanRaises
    \/ AfterScan
    \/ LoopHead
    \/ Dispatch
    \/ LoopExit
    \/ MoveUncategorized
    \/ Finalize

\* The GUI's event loop delivers a queued finished or error signal to its slot
Delivery == OnOperationFinished \/ OnError

\* The worker's thread is scheduled while it has a step to take, and the
\* event loop delivers what is queued, as long as the window is open; once
\* the close event is accepted the program ends, and nothing is assumed of
\* the steps taken until then
LiveSpec ==
    /\ Init
    /\ [][Next]_vars
    /\ WF_vars(~closed /\ WorkerStep)
    /\ WF_vars(~closed /\ Delivery)

-----------------------------------------------------------------------------
(* Claims *)

Done == pc = "done"

\* The earliest enabled category whose extension list holds the lower-cased
\* extension; 0 when there is none
FirstEnabledMatch(cats, ext) ==
    LET lowered == Lower(ext)
        M == {k \in 1..Len(cats) :
                 cats[k].enabled /\ lowered \in Range(cats[k].extensions)}
    IN IF M = {} THEN 0 ELSE CHOOSE k \in M : \A m \in M : k <= m

\* Extensions in several letter cases, declared by two, one or no category
ProbeExtensions ==
    { <<".", "p", "d", "f">>, <<".", "P", "D", "F">>, <<".", "P", "d", "f">>,
      <<".", "t", "x", "t">>, <<".", "T", "X", "T">>, <<".", "J", "p", "G">>,
      <<".", "j", "p", "g">>, <<".", "x", "y", "z">>, <<".", "D", "O", "C">>, <<>> }

\* C1: on every registry the worker classifies against and for an extension
\* in any letter case, get_category_for_extension returns the earliest
\* category, in registry order, that is enabled and declares the lower-cased
\* extension, and none when no enabled category declares it; the category the
\* worker holds for the file it classified is that category of the file's
\* suffix.
C1_FirstMatchWins ==
    pc = "classified" =>
       /\ \A ext \in ProbeExtensions :
             get_category_for_extension(categories, ext) = FirstEnabledMatch(categories, ext)
       /\ ~hist.edited =>
             category = FirstEnabledMatch(categories, Suffix(files[i + 1].name))

\* The worker classified a file with an upper-case suffix that two enabled
\* categories declare, into the earlier one
C1_Witness ==
    /\ pc = "classified"
    /\ ~hist.edited
    /\ category # 0
    /\ Suffix(files[i + 1].name) # Lower(Suffix(files[i + 1].name))
    /\ \E k \in (category + 1)..Len(categories) :
          categories[k].enabled /\ matches_extension(categories[k], files[i + 1].extension)

\* A filesystem with one more file
WithFile(f, p) ==
    [q \in DOMAIN f \cup {p} |-> IF q = p THEN [kind |-> "file", id |-> 0] ELSE f[q]]

\* Three files named r.PDF moved into an empty folder are named r.PDF,
\* r_1.PDF and r_2.PDF
ThreeReports ==
    LET folder == <<NDst, NDocuments>>
        info == FileInfo(<<NSrc, NReport>>)
        f0 == Mkdir(<<>>, folder)
        d1 == choose_destination(f0, folder, info)
        f1 == WithFile(f0, d1)
        d2 == choose_destination(f1, folder, info)
        f2 == WithFile(f1, d2)
        d3 == choose_destination(f2, folder, info)
    IN <<BaseName(d1), BaseName(d2), BaseName(d3)>> =
          <<NReport, <<"r", "_", "1", ".", "P", "D", "F">>,
            <<"r", "_", "2", ".", "P", "D", "F">> >>

\* C2: the name under which a file is moved into a folder is its own name when
\* the folder holds no entry of that name, otherwise stem_n.suffix for the
\* least n >= 1 whose name the folder does not hold; it is never the name of an
\* entry the folder held before the move.
C2_CollisionFreeName ==
    /\ ThreeReports
    /\ hist.last # NoMove =>
          LET name == hist.last.name
              taken == hist.last.taken
              chosen == BaseName(hist.last.destination)
              numbered(n) == NumberedName(Stem(name), n, Suffix(name))
          IN /\ chosen \notin taken
             /\ SubSeq(hist.last.destination, 1, Len(hist.last.folder)) = hist.last.folder
             /\ name \notin taken => chosen = name
             /\ name \in taken =>
                   \E n \in 1..(Cardinality(taken) + 1) :
                      /\ chosen = numbered(n)
                      /\ \A m \in 1..(n - 1) : numbered(m) \in taken

\* A file was moved under the name r_2.PDF: r.PDF and r_1.PDF were taken
C2_Witness ==
    /\ hist.last # NoMove
    /\ BaseName(hist.last.destination) = <<"r", "_", "2", ".", "P", "D", "F">>
    /\ {NReport, <<"r", "_", "1", ".", "P", "D", "F">>} \subseteq hist.last.taken

\* A real run completed after a completed dry run with the same scanned
\* files; the registry was not edited from the start of the dry run on, so
\* both runs read the same registry and the same counts at their start
Comparable ==
    /\ Done
    /\ ~dry_run
    /\ ~hist.edited
    /\ hist.prev.reference.valid
    /\ hist.prev.reference.files = Range(files)
    /\ hist.prev.source_dir = source_dir
    /\ hist.prev.dest_dir = dest_dir

\* C3 as stated: a dry run and a real run on the same files and registry that
\* both complete report the same per-category counts.
C3_SameCounts ==
    Comparable => Summary.categories = hist.prev.reference.summary_categories

\* The count a summary's map holds for a category name, 0 when it has none
CountIn(map, name) == IF name \in DOMAIN map THEN map[name] ELSE 0

\* The matched files of this run dispatched to category k whose move failed
FailedFor(k) == Cardinality({q \in DOMAIN hist.route : hist.route[q] = k}) - hist.routed[k]

\* C3 amended: a dry run and a real run on the same files and registry that
\* both complete report the same per-category counts, except that a matched
\* file whose move fails in the real run is counted by the dry run and not by
\* the real run: for every category the real run's count is the dry run's
\* count less the number of its files whose move failed, and a category left
\* with no file is not in the real run's map.
C3_SameCountsButFailedMoves ==
    Comparable =>
        /\ \A k \in 1..Len(categories) :
              CountIn(Summary.categories, categories[k].name)
                 = CountIn(hist.prev.reference.summary_categories, categories[k].name)
                      - FailedFor(k)
        /\ \A name \in DOMAIN Summary.categories :
              /\ Summary.categories[name] > 0
              /\ \E k \in 1..Len(categories) : categories[k].name = name
        /\ hist.failures = 0 =>
              Summary.categories = hist.prev.reference.summary_categories

\* Both runs counted two files of one category; in the real run the move of
\* one failed and the other was moved
C3_Witness ==
    /\ Comparable
    /\ hist.failures = 1
    /\ organized_count = 1
    /\ \E k \in 1..Len(categories) :
          /\ FailedFor(k) = 1
          /\ CountIn(hist.prev.reference.summary_categories, categories[k].name) = 2
          /\ CountIn(Summary.categories, categories[k].name) = 1

\* C4: in every state of a dry run the filesystem is the one of the run's start
\* (no directory made, no file moved), whatever the files, registry and stop
\* requests.
C4_DryRunKeepsFilesystem == (dry_run /\ pc # "idle") => fs = hist.fs0

\* A dry run completed that counted a matched file and left an unmatched one
C4_Witness ==
    /\ Done
    /\ dry_run
    /\ organized_count > 0
    /\ uncategorized_files # <<>>

\* C5: a real run that follows a real run which completed without a failed
\* move moves none of the files that run moved, and its summary reports 0
\* organized and 0 uncategorized.
C5_SecondRunIdle ==
    (hist.prev.clean_real /\ hist.prev.source_dir = source_dir
        /\ hist.prev.dest_dir = dest_dir /\ ~dry_run /\ pc # "idle") =>
        /\ hist.moved \cap hist.prev.moved = {}
        /\ Done => Summary.organized = 0 /\ Summary.uncategorized = 0

\* The second run scanned the files the first moved below the nested
\* destination root, and completed
C5_Witness ==
    /\ Done
    /\ ~dry_run
    /\ hist.prev.clean_real
    /\ hist.prev.source_dir = source_dir
    /\ hist.prev.dest_dir = dest_dir
    /\ Cardinality(hist.prev.moved) >= 2
    /\ Len(files) >= 2

\* The files below a folder
FilesBelow(f, folder) == {q \in DOMAIN f : InParents(folder, q) /\ f[q].kind = "file"}

\* What the claim says of the routing, apart from the folder: no file is
\* routed to a category that stays disabled and its counter keeps its value;
\* with the registry not edited during the run, every dispatched file went to
\* the earliest enabled category declaring its extension (a later enabled one
\* when the earlier are disabled), and to the uncategorized list when only
\* disabled categories, or none, declare it; a completed real run without a
\* failed move has it in Uncategorized
RoutedPastDisabled ==
    /\ \A k \in hist.stays_disabled :
          /\ hist.routed[k] = 0
          /\ categories[k].file_count = hist.file_count0[k]
          /\ \A q \in DOMAIN hist.route : hist.route[q] # k
    /\ ~hist.edited =>
          /\ \A q \in DOMAIN hist.route :
                hist.route[q] = FirstEnabledMatch(categories, Suffix(BaseName(q)))
          /\ \A q \in DOMAIN hist.route :
                hist.route[q] = 0 <=> FileInfo(q) \in Range(uncategorized_files)
          /\ (Done /\ ~dry_run /\ hist.uncategorized_failures = 0) =>
                \A q \in DOMAIN hist.route :
                    hist.route[q] = 0 =>
                        \E d \in FilesBelow(fs, Append(dest_dir, NUncategorized)) :
                            fs[d] = hist.fs0[q]

\* The files that arrived below folder in this run
ArrivedBelow(folder) ==
    {q \in FilesBelow(fs, folder) : q \notin DOMAIN hist.fs0 \/ hist.fs0[q] # fs[q]}

\* C6 as stated: during a run in which a category stays disabled, no file is
\* moved into its folder and its counter is not incremented; files only
\* disabled categories declare go to the uncategorized list, files a later
\* enabled category declares go to that category.
C6_DisabledNotMatched ==
    pc # "idle" =>
      /\ RoutedPastDisabled
      /\ \A k \in hist.stays_disabled :
            ArrivedBelow(Append(dest_dir, categories[k].folder_name)) = {}

\* C6 amended: during a run in which a category stays disabled, no file is
\* routed to it and its counter is not incremented; a file arrives in its
\* folder only as a file routed to another category, enabled when the file
\* was classified, that uses the same folder name, or as an unmatched file
\* when the folder is named Uncategorized; files only disabled categories
\* declare go to the uncategorized list, files a later enabled category
\* declares go to that category.
C6_DisabledNotRouted ==
    pc # "idle" =>
      /\ RoutedPastDisabled
      /\ \A k \in hist.stays_disabled :
            \A q \in ArrivedBelow(Append(dest_dir, categories[k].folder_name)) :
                \E src \in DOMAIN hist.route :
                    /\ hist.fs0[src] = fs[q]
                    /\ IF hist.route[src] = 0
                       THEN categories[k].folder_name = NUncategorized
                       ELSE /\ hist.route[src] # k
                            /\ categories[hist.route[src]].folder_name
                                  = categories[k].folder_name

\* Documents stayed disabled: r.PDF went to the later category Texts, which
\* uses the folder of Documents
C6_Witness ==
    /\ Done
    /\ ~dry_run
    /\ ~hist.edited
    /\ 1 \in hist.stays_disabled
    /\ Len(categories) > Len(init_default_categories)
    /\ hist.routed[Len(categories)] > 0
    /\ categories[Len(categories)].folder_name = categories[1].folder_name
    /\ ArrivedBelow(Append(dest_dir, categories[1].folder_name)) # {}
    /\ \E q \in DOMAIN hist.route :
          /\ hist.route[q] = Len(categories)
          /\ matches_extension(categories[1], Suffix(BaseName(q)))

\* C7 as stated: immediately before the first file is processed every category
\* of the registry, enabled or disabled, has file_count 0.
C7_AllCountersReset ==
    (pc = "loop" /\ i = 0) => \A k \in 1..Len(categories) : categories[k].file_count = 0

RECURSIVE SumSeq(_)
SumSeq(seq) == IF seq = <<>> THEN 0 ELSE Head(seq) + SumSeq(Tail(seq))

\* Category name -> number of files routed to it in this run, for the
\* categories that received a file
RoutedThisRun ==
    LET got == {k \in 1..Len(hist.routed) : hist.routed[k] > 0}
    IN [n \in {categories[k].name : k \in got} |->
          hist.routed[CHOOSE k \in got : categories[k].name = n]]

\* C8 as stated: after earlier runs and edits of the registry made between
\* runs, the summary's categories map holds exactly the categories that
\* received files in this run, each with the number it received, and these
\* numbers sum to the organized count.
C8_SummaryOfThisRun ==
    (Done /\ ~hist.edited /\ ~hist.prev.edited) =>
        /\ Summary.categories = RoutedThisRun
        /\ SumSeq(hist.routed) = Summary.organized

\* No summary, error or final progress was emitted
NothingReported ==
    /\ \A e \in Range(events) :
          /\ e.kind \notin {"finished", "error"}
          /\ e.kind = "progress" => e.arg # 100
    /\ pending = <<>>

\* The worker takes a step from a scan-entry boundary or a per-file boundary of
\* the processing loop with the stop flag set
ObservesStop ==
    /\ should_stop
    /\ \/ pc = "scan" /\ (scan_left' # scan_left \/ pc' \in {"scanned", "aborted"})
       \/ pc = "loop" /\ i < Len(files) /\ (pc' # pc \/ i' # i)

\* C9: when the worker observes the stop flag at a scan-entry boundary or at a
\* per-file boundary of the processing loop, the run ends there: it has emitted
\* and emits no summary, no error and no progress(100), and moves no further
\* file.
C9_AbortReportsNothing ==
    /\ [](pc = "aborted" => NothingReported)
    /\ [][ObservesStop => (pc' = "aborted" /\ fs' = fs /\ events' = events
                           /\ pending' = pending)]_vars
    /\ [][pc = "aborted" => (fs' = fs /\ events' = events /\ pending' = pending)]_vars

\* A run was aborted after it had moved a file
C9_Witness ==
    /\ pc = "aborted"
    /\ hist.moved # {}
    /\ hist.last # NoMove

\* C10 as stated: once stop() has set the flag while the worker scans,
\* processes a file or handles the uncategorized files, at most the one
\* relocation in flight completes and the run ends without a summary.
C10_BoundedStop ==
    hist.stop_while_active =>
        /\ hist.relocations_after_stop <= 1
        /\ ~Done
        /\ \A e \in Range(events) : e.kind # "finished"

\* The scan of this run failed: the source root could not be listed, or the
\* enumeration raised
ScanFailed ==
    \/ pc # "idle" /\ ~IsListable(hist.fs0, source_dir)
    \/ ErrorOccurred("scan") \in Range(events)

Ended == pc \in {"done", "failed", "aborted"}

ErrorEvents == {k \in 1..Len(events) : events[k].kind = "error"}

\* C11 as stated: a run whose scan fails (root unreadable, or the enumeration
\* raising) changes neither the filesystem nor a counter, and ends with
\* exactly one error event and no summary.
C11_ScanFailureClean ==
    ScanFailed =>
        /\ fs = hist.fs0
        /\ \A k \in 1..Len(categories) : categories[k].file_count = hist.file_count0[k]
        /\ Ended => (Cardinality(ErrorEvents) = 1 /\ EmittedSummaries = {})

\* The worker's step is a move of the matched file files[i + 1] that fails
FailsMove == pc = "classified" /\ hist'.failures = hist.failures + 1

\* The files the processing loop does not skip
Processed == {k \in 1..Len(files) : ~InParents(dest_dir, files[k].path)}

\* How far the worker is: the phase of organize_files it is in, and what is
\* left of the loop of that phase (the entries not yet enumerated, twice the
\* files not yet processed less one when the file at hand is classified, the
\* unmatched files not yet handled).  A step advances when it leads to a later
\* phase or leaves less of the same loop; both are natural numbers, so only
\* finitely many steps advance
Phase ==
    CASE pc = "start" -> 6
      [] pc = "scan" -> 5
      [] pc = "scanned" -> 4
      [] pc \in {"loop", "classified"} -> 3
      [] pc = "uncategorized" -> 2
      [] pc = "final" -> 1
      [] OTHER -> 0
Within ==
    CASE pc = "scan" -> Cardinality(scan_left)
      [] pc = "loop" -> 2 * (Len(files) - i)
      [] pc = "classified" -> 2 * (Len(files) - i) - 1
      [] pc = "uncategorized" -> Len(uncategorized_files) - j
      [] OTHER -> 0
Advances == Phase' < Phase \/ (Phase' = Phase /\ Within' < Within)

\* C12: when the move of a matched file fails in a real run, one log entry is
\* emitted, the organized count and every category counter keep their values,
\* the file stays at its source path, and the loop goes on with the next file.
\* The run then ends with a summary: in every state of a run with a failed
\* move that has not ended the worker has a step to take, each of its steps
\* advances, and the run ends aborted only when a stop was requested, failed
\* only when the making of the Uncategorized folder raised after the last
\* file, and else done with a summary that counts every scanned file in
\* total_files, every file outside the destination root having been
\* dispatched.
C12_MoveFailureIsolated ==
    /\ [][FailsMove =>
            /\ ~dry_run
            /\ events' = Append(events, Log("error moving"))
            /\ organized_count' = organized_count
            /\ \A k \in 1..Len(categories) :
                  categories'[k].file_count = categories[k].file_count
            /\ files[i + 1].path \in DOMAIN fs'
            /\ fs'[files[i + 1].path] = fs[files[i + 1].path]
            /\ pending' = pending
            /\ pc' = "loop"
            /\ i' = i + 1]_vars
    /\ [](hist.failures > 0 =>
            /\ pc = "aborted" => should_stop
            /\ pc = "failed" =>
                  /\ i = Len(files)
                  /\ uncategorized_files # <<>>
                  /\ events[Len(events)] = ErrorOccurred("exception")
            /\ Done <=> EmittedSummaries # {}
            /\ \A e \in EmittedSummaries :
                  /\ e.arg.total_files = Len(files)
                  /\ i = Len(files)
                  /\ \A k \in Processed : files[k].path \in DOMAIN hist.route
            /\ Active => (Within >= 0 /\ ENABLED <<WorkerStep>>_vars))
    /\ [][(hist.failures > 0 /\ WorkerStep) => Advances]_vars

\* The temporal form of the last part of C12, which holds under LiveSpec: a
\* run with a failed move reaches its summary, unless a stop is requested,
\* the window is closed or the making of the Uncategorized folder raises
C12_EndsWithSummary ==
    hist.failures > 0 ~> (EmittedSummaries # {} \/ should_stop \/ closed \/ pc = "failed")

\* The move of one of two matched files failed: it is where it was, the other
\* was moved and counted, and the run completed with a summary
C12_Witness ==
    /\ Done
    /\ ~dry_run
    /\ hist.failures = 1
    /\ organized_count = 1
    /\ EmittedSummaries # {}
    /\ Summary.organized = 1
    /\ \E a \in Processed, b \in Processed :
          /\ a < b
          /\ files[a].path \in DOMAIN fs
          /\ files[b].path \notin DOMAIN fs

\* C13 as stated: the only error event a run emits is the one of a failed
\* scan; a run whose scan succeeded does not end in an error.
C13_OnlyScanAborts ==
    /\ \A e \in Range(events) : e.kind = "error" => e = ErrorOccurred("scan")
    /\ pc = "failed" => ErrorOccurred("scan") \in Range(events)

SummaryEvents == {k \in 1..Len(events) : events[k].kind = "finished"}

\* C14: in every run at most one summary and at most one error event are
\* emitted, never both, and a summary is the last event of its run.
C14_SummaryTerminal ==
    /\ [](/\ Cardinality(SummaryEvents) <= 1
          /\ Cardinality(ErrorEvents) <= 1
          /\ SummaryEvents = {} \/ ErrorEvents = {}
          /\ \A k \in SummaryEvents : k = Len(events)
          /\ Len(pending) <= 1)
    /\ [][SummaryEvents # {} => (events' = events \/ events' = <<>>)]_vars

\* A real run that moved a file has emitted its summary and waits for the GUI
C14_Witness ==
    /\ Done
    /\ hist.moved # {}
    /\ SummaryEvents = {Len(events)}
    /\ pending = <<"finished">>

\* What the worker reads of the registry to classify: the categories in
\* order, each with its extensions, folder and enabled flag
Classifying(cats) ==
    [k \in 1..Len(cats) |->
        [name |-> cats[k].name, extensions |-> cats[k].extensions,
         folder_name |-> cats[k].folder_name, enabled |-> cats[k].enabled]]

\* C15 as stated: while a run is active no step changes the category list,
\* its order or a category's enabled flag (the worker itself writes only the
\* counters, so such a change is a write of the GUI).
C15_RegistryFixedDuringRun ==
    [][Active => Classifying(categories') = Classifying(categories)]_vars

\* C16: from the launch of a worker until the GUI has handled the run's
\* summary or error, both start buttons are disabled and no step starts
\* another run.
C16_OneRunAtATime ==
    /\ [](pc # "idle" => (worker /\ ~dry_run_btn /\ ~organize_btn))
    /\ [][pc # "idle" => runs' = runs]_vars

\* The second run of the behaviour, a real run, is processing a file; the
\* first, a dry run, completed and has been handled
C16_Witness ==
    /\ runs = 2
    /\ pc = "classified"
    /\ hist.prev.reference.valid
    /\ ~dry_run

\* The twelve characters below U+0100 for which str.isspace() holds
Blanks == {" ", "\t", "\n", "\r", "\f", VT, FS, GS, RS, US, NEL, NBSP}

\* A text with a character that is not a space / neither a space nor a comma
NonBlank(text) == \E k \in 1..Len(text) : text[k] \notin Blanks
HasToken(text) == \E k \in 1..Len(text) : text[k] \notin Blanks \cup {","}

\* reg is cats with exactly one category appended: enabled, with count 0
AppendsOne(cats, reg) ==
    /\ Len(reg) = Len(cats) + 1
    /\ \A k \in 1..Len(cats) : reg[k] = cats[k]
    /\ reg[Len(reg)].enabled
    /\ reg[Len(reg)].file_count = 0

\* C17: on every registry the program has between runs and in the processing
\* loop, and for every text of the dialog's fields, an add whose name,
\* folder or extension list is empty after trimming leaves the registry as it is, and any other add appends exactly
\* one enabled category with count 0, the existing categories unchanged; a
\* step of the program that changes the length of the registry is such an
\* append.
C17_AddValidatesAndAppends ==
    /\ [](pc \in {"idle", "loop"} =>
          \A n \in NameTexts, e \in ExtensionTexts, f \in FolderTexts :
            LET reg == registry_after_add(categories, n, e, f)
            IN IF NonBlank(n) /\ HasToken(e) /\ NonBlank(f)
               THEN AppendsOne(categories, reg)
               ELSE Len(reg) = Len(categories) /\ reg = categories)
    /\ [][Len(categories') # Len(categories) => AppendsOne(categories, categories')]_vars

\* A category was appended to a registry that holds a disabled category and a
\* category with a count
C17_Witness ==
    /\ Len(categories) = Len(init_default_categories) + 1
    /\ categories[Len(categories)].name = NTexts
    /\ categories[Len(categories)].file_count = 0
    /\ \E k \in 1..Len(init_default_categories) : ~categories[k].enabled
    /\ \E k \in 1..Len(init_default_categories) : categories[k].file_count > 0

\* C18: a run whose scan found no file, dry or real, does not enter
\* processing: it creates no directory, moves no file, changes no counter and
\* emits, after the opening signals and one log entry, the summary with
\* total_files 0, organized 0, uncategorized 0 and no category.
C18_EmptySource ==
    (files = <<>> /\ pc \notin {"idle", "start", "scan", "aborted", "failed"}) =>
        /\ pc \in {"scanned", "done"}
        /\ fs = hist.fs0
        /\ \A k \in 1..Len(categories) : categories[k].file_count = hist.file_count0[k]
        /\ \A e \in Range(events) : e.kind \in {"log", "status", "finished"}
        /\ Done =>
              /\ Len(events) = 6
              /\ events[6] = Finished([total_files |-> 0, organized |-> 0,
                                       uncategorized |-> 0, categories |-> <<>>])

\* A real run found nothing under the source root after the run before it had
\* moved the files out; a counter still holds that run's count
C18_Witness ==
    /\ Done
    /\ ~dry_run
    /\ files = <<>>
    /\ hist.prev.moved # {}
    /\ \E k \in 1..Len(categories) : categories[k].file_count > 0

\* C19 as stated: every summary of a run, the one of a run that found no
\* file included, comes after progress(100) and, after that, the final status
\* event.
C19_CompletionProtocol ==
    \A k \in SummaryEvents :
        \E a \in 1..(k - 1), b \in 1..(k - 1) :
            /\ a < b
            /\ events[a] = Progress(100)
            /\ events[b] = Status("complete")

\* The scanned files that lie inside the destination root
Skipped == {k \in 1..Len(files) : InParents(dest_dir, files[k].path)}

\* C20: a scanned file inside the destination root stays where it is, is
\* dispatched to no category and not to the uncategorized list, so that the
\* organized count and the uncategorized list account for the other files
\* only; the summary counts it in total_files.
C20_DestinationSkipped ==
    pc # "idle" =>
        /\ \A k \in Skipped :
              /\ files[k].path \in DOMAIN fs
              /\ fs[files[k].path] = hist.fs0[files[k].path]
              /\ files[k].path \notin DOMAIN hist.route
              /\ files[k] \notin Range(uncategorized_files)
        /\ organized_count + Len(uncategorized_files) <= Len(files) - Cardinality(Skipped)
        /\ SumSeq(hist.routed) <= Len(files) - Cardinality(Skipped)
        /\ Done =>
              /\ Summary.total_files = Len(files)
              /\ Summary.organized + Summary.uncategorized
                    <= Len(files) - Cardinality(Skipped)

\* A real run scanned a file inside the nested destination root and a file
\* outside it, moved the second and completed
C20_Witness ==
    /\ Done
    /\ ~dry_run
    /\ Skipped # {}
    /\ organized_count > 0
    /\ Summary.total_files = organized_count + Cardinality(Skipped)

\* The folder of the unmatched files
UncategorizedPath == Append(dest_dir, NUncategorized)

\* The scanned files the processing loop put on the uncategorized list
Unmatched == {p \in DOMAIN hist.route : hist.route[p] = 0}

\* The file that was at path p when the run started is an entry of folder now
HeldIn(folder, p) ==
    \E q \in DOMAIN fs :
        /\ Len(q) = Len(folder) + 1
        /\ IsPrefix(folder, q)
        /\ fs[q] = hist.fs0[p]

\* A pass of the loop of handle_uncategorized_files
MovesUncategorized == pc = "uncategorized" /\ j' # j

\* C21: in a real run the unmatched files are relocated after the last scanned
\* file was processed and before the summary: a pass of that loop either moves
\* the file into Uncategorized under the destination root, under its own name
\* when that is free there and else under stem_n.suffix for the least free n,
\* or logs the failure and leaves the file at its path, removing and changing
\* nothing; either way the loop goes on to the next file: while the loop has
\* a file left its pass can be taken, the loop is left only for the closing
\* signals, and these are followed by the summary only.  A
\* summary is emitted when every unmatched file has left its path for
\* Uncategorized but those whose move failed, which are where they were, and
\* its uncategorized count is the number of unmatched files, which without an
\* edit of the registry during the run are the processed files no enabled
\* category matches.
C21_UncategorizedHandled ==
    /\ [][MovesUncategorized =>
            LET file_info == uncategorized_files[j + 1]
                taken == NamesIn(fs, UncategorizedPath)
                numbered(n) == NumberedName(Stem(file_info.name), n, Suffix(file_info.name))
            IN /\ ~dry_run /\ i = Len(files) /\ EmittedSummaries = {}
               /\ j' = j + 1
               /\ pc' = IF j' = Len(uncategorized_files) THEN "final" ELSE "uncategorized"
               /\ \/ /\ events' = Append(events, Log("error moving uncategorized"))
                     /\ \A q \in DOMAIN fs : q \in DOMAIN fs' /\ fs'[q] = fs[q]
                  \/ /\ events' = Append(events, Log("moved uncategorized"))
                     /\ \E name \in {file_info.name} \cup
                                     {numbered(n) : n \in 1..(Cardinality(taken) + 1)} :
                           /\ fs' = Move(fs, file_info.path, Append(UncategorizedPath, name))
                           /\ name \notin taken
                           /\ file_info.name \notin taken => name = file_info.name
                           /\ file_info.name \in taken =>
                                 \E n \in 1..(Cardinality(taken) + 1) :
                                    /\ name = numbered(n)
                                    /\ \A m \in 1..(n - 1) : numbered(m) \in taken]_vars
    /\ [](pc # "idle" =>
            /\ (~dry_run /\ pc \in {"loop", "classified"}) =>
                  \A p \in Unmatched : p \in DOMAIN fs /\ fs[p] = hist.fs0[p]
            /\ \A e \in EmittedSummaries :
                  /\ e.arg.uncategorized = Cardinality(Unmatched)
                  /\ ~hist.edited =>
                        Unmatched = {files[k].path : k \in
                                        {k \in Processed :
                                            FirstEnabledMatch(categories, files[k].extension) = 0}}
                  /\ ~dry_run =>
                        /\ j = Len(uncategorized_files)
                        /\ Cardinality({p \in Unmatched : p \in DOMAIN fs})
                              = hist.uncategorized_failures
                        /\ \A p \in Unmatched :
                              IF p \in DOMAIN fs THEN fs[p] = hist.fs0[p]
                              ELSE HeldIn(UncategorizedPath, p))
    /\ [](pc \in {"uncategorized", "final"} =>
            /\ j <= Len(uncategorized_files)
            /\ pc = "uncategorized" => (~dry_run /\ j < Len(uncategorized_files))
            /\ (pc = "final" /\ ~dry_run) => j = Len(uncategorized_files)
            /\ ENABLED <<MoveUncategorized \/ Finalize>>_vars)
    /\ [][(pc \in {"uncategorized", "final"} /\ WorkerStep) =>
            /\ Advances
            /\ IF pc = "uncategorized"
               THEN MovesUncategorized /\ pc' \in {"uncategorized", "final"}
               ELSE pc' = "done" /\ EmittedSummaries' # {}]_vars
    /\ [][(pc \in {"uncategorized", "final"} /\ pc' # pc) => WorkerStep]_vars

\* The temporal form of the progress part of C21, which holds under LiveSpec:
\* once the loop over the unmatched files is entered, the run reaches its
\* summary, as long as the program runs
C21_ReachesSummary == pc = "uncategorized" ~> (EmittedSummaries # {} \/ closed)

\* A real run with two unmatched files completed: the move of one failed, the
\* other is in Uncategorized
C21_Witness ==
    /\ Done
    /\ ~dry_run
    /\ Cardinality(Unmatched) = 2
    /\ hist.uncategorized_failures = 1
    /\ \E p \in Unmatched : HeldIn(UncategorizedPath, p)
    /\ events[Len(events) - 4] = Log("moved uncategorized")

\* Two unmatched files of the same name were moved: the second is r_1.PDF
C21_WitnessNumbered ==
    /\ Done
    /\ ~dry_run
    /\ Append(UncategorizedPath, <<"r", "_", "1", ".", "P", "D", "F">>) \in DOMAIN fs

\* The files below the source root when the run started, those in a
\* directory the process may not list aside
FilesAtStart ==
    {q \in DOMAIN hist.fs0 :
        InParents(source_dir, q) /\ ~Denied(hist.fs0, q) /\ IsFile(hist.fs0, q)}

\* The worker is past the scan
Processing == pc \in {"loop", "classified", "uncategorized", "final"}

\* The passes of the processing loop that got past "if self.should_stop"
PassesBegun == Cardinality({k \in 1..Len(events) : events[k] = Status("processing")})

\* C22: once the scan is over, the list the run processes holds each file that
\* was below the source root when the run started once, and nothing else, so
\* no file the run moved or copied; the list stays as it is until the run ends,
\* the loop takes its files in order, one pass each; and every run that
\* starts ends, completed, aborted or failed: as long as it has not ended the
\* worker has a step to take, and each of its steps advances.
C22_SnapshotAndTermination ==
    /\ []((Processing \/ (Done /\ files # <<>>)) =>
            /\ {files[k].path : k \in 1..Len(files)} = FilesAtStart
            /\ Cardinality(FilesAtStart) = Len(files)
            /\ i <= Len(files)
            /\ PassesBegun = (IF pc = "classified" THEN i + 1 ELSE i)
            /\ Cardinality(hist.moved) + hist.failures + hist.uncategorized_failures
                  <= Len(files)
            /\ \A p \in DOMAIN fs :
                  (IsFile(fs, p) /\ p \notin DOMAIN hist.fs0) =>
                      /\ fs[p].id \in hist.moved \cup hist.copied
                      /\ \A k \in 1..Len(files) : files[k].path # p)
    /\ [][Processing => (files' = files /\ i' \in {i, i + 1} /\ j' \in {j, j + 1})]_vars
    /\ [](Active => (Within >= 0 /\ ENABLED <<WorkerStep>>_vars))
    /\ [](~Active => (Ended \/ pc = "idle") /\ ~ENABLED <<WorkerStep>>_vars)
    /\ [][WorkerStep => Advances]_vars

\* The temporal form of the last part of C22, which holds under LiveSpec: every
\* run that starts ends, as long as the program runs
C22_Terminates == pc = "start" ~> (Ended \/ closed)

\* A real run with the destination root nested in the source root scanned a
\* file the destination held, moved a file of a subdirectory and a file of
\* the root, and completed
C22_Witness ==
    /\ Done
    /\ ~dry_run
    /\ InParents(source_dir, dest_dir)
    /\ Len(files) = 3
    /\ Cardinality(hist.moved) = 2
    /\ \E k \in 1..Len(files) : Len(files[k].path) = 3 /\ files[k].path \notin DOMAIN fs

\* A real run with the destination root beside the source root moved a file
\* and completed
C22_WitnessBeside ==
    /\ Done
    /\ ~dry_run
    /\ ~InParents(source_dir, dest_dir)
    /\ hist.moved # {}

\* The dry-run and organize buttons are enabled and the GUI holds no worker
Recovered == dry_run_btn /\ organize_btn /\ ~worker

\* C23: whenever a started run has ended, completed, failed or aborted, the
\* dry-run and organize buttons eventually are enabled again and the worker
\* reference is cleared.
C23_ControlsRecover == Ended ~> (Recovered \/ closed)

\* The paths that hold a file
FilePaths(f) == {q \in DOMAIN f : IsFile(f, q)}

\* The entries of the folders directly under the destination root
DestinationPaths == {q \in DOMAIN fs : Len(q) = Len(dest_dir) + 2 /\ IsPrefix(dest_dir, q)}

\* C24 as stated: in every state of a real run each file that existed when
\* the run started, under the source root or in a destination folder, is at
\* exactly one path: where it was, or in a folder directly under the
\* destination root at a path that was free; no file is made, none is lost,
\* and a step never puts another file at a path that holds a file; also when
\* a move fails.
C24_FilesConserved ==
    /\ []((pc # "idle" /\ ~dry_run) =>
            /\ \A p \in FilePaths(hist.fs0) :
                  LET here == {q \in FilePaths(fs) : fs[q].id = hist.fs0[p].id}
                  IN /\ Cardinality(here) = 1
                     /\ \A q \in here :
                           q = p \/ (q \in DestinationPaths /\ q \notin DOMAIN hist.fs0)
            /\ Cardinality(FilePaths(fs)) = Cardinality(FilePaths(hist.fs0))
            /\ \A q \in DOMAIN hist.fs0 \ FilePaths(hist.fs0) :
                  q \in DOMAIN fs /\ fs[q] = hist.fs0[q])
    /\ [][\A q \in FilePaths(fs) : q \in DOMAIN fs' => fs'[q] = fs[q]]_vars

\* The scanned files dispatched to a category
Matched == {p \in DOMAIN hist.route : hist.route[p] # 0}

\* C25: an emitted summary's total_files is the number of scanned files, and
\* is organized + uncategorized + the scanned files under the destination root
\* + the matched files whose move failed; organized + uncategorized is at most
\* total_files; each processed file is counted on one side only: the organized
\* files are the matched ones whose move did not fail, the uncategorized ones
\* are the others, each listed once.  The processing loop keeps that account
\* file by file.
C25_SummaryAccounting ==
    /\ (Processing \/ (Done /\ files # <<>>)) =>
          /\ pc # "classified" =>
                i = organized_count + Len(uncategorized_files)
                      + Cardinality({k \in Skipped : k <= i}) + hist.failures
          /\ organized_count = Cardinality(Matched) - hist.failures
          /\ Len(uncategorized_files) = Cardinality(Unmatched)
          /\ {uncategorized_files[k].path : k \in 1..Len(uncategorized_files)} = Unmatched
          /\ Matched \cup Unmatched \subseteq {files[k].path : k \in Processed}
    /\ \A e \in EmittedSummaries :
          /\ e.arg.total_files = Len(files)
          /\ e.arg.total_files = e.arg.organized + e.arg.uncategorized
                                   + Cardinality(Skipped) + hist.failures
          /\ e.arg.organized + e.arg.uncategorized <= e.arg.total_files
          /\ e.arg.organized = organized_count
          /\ e.arg.uncategorized = Len(uncategorized_files)

\* A real run completed whose scan held a file under the destination root, a
\* matched file whose move failed and a file that was organized
C25_Witness ==
    /\ Done
    /\ ~dry_run
    /\ Skipped # {}
    /\ hist.failures = 1
    /\ Summary.organized = 1
    /\ Summary.total_files = 3

\* A run completed that reported one organized and one uncategorized file
C25_WitnessBothSides ==
    /\ Done
    /\ Summary.organized = 1
    /\ Summary.uncategorized = 1
    /\ Summary.total_files = 2

====
